---- MODULE Spec2Model ----
(***************************************************************************)
(* Verification model of bdns_core: the user service and the request       *)
(* authorization gates (auth/service.py, auth/dependencies.py), the JWT    *)
(* helpers (auth/jwt_auth.py), the scoped database sessions, database URL  *)
(* and pool configuration (db/manager.py, db/session.py, config/base.py),  *)
(* the bootstrap runner (db/bootstrap), the tax-id and text utilities      *)
(* (db/nif_utils.py, db/utils.py), the equivalent-amount rules             *)
(* (business/equivalencia.py), the Concesion and EtlJob models             *)
(* (db/models.py, db/etl_models.py), the secrets reader (auth/secrets.py)  *)
(* and the logging facade (logging.py).                                    *)
(*                                                                         *)
(* Text is a sequence of one-character strings, so that str.lower() is     *)
(* computed character by character.  An optional value (Python None or a   *)
(* value) is a sequence of length 0 or 1.                                  *)
(***************************************************************************)
EXTENDS Integers, Sequences, FiniteSets, TLC

VARIABLES
    users,      \* table bdns.usuario: id -> row
    nextId,     \* next primary key handed out (ids are never reused)
    now,        \* the clock (datetime.utcnow()), in minutes
    ticks,      \* how many times the clock has advanced
    tok,        \* the token the client presents, with the call that made it: <<>> or <<t>>
    cfg,        \* the loaded BaseSettings (JWT_* fields)
    resp,       \* the last operation and what it returned or raised
    okBefore,   \* history: get_current_user has accepted the presented token
    lastPw,     \* history: id -> the password most recently set for that user
    sess,       \* the scoped database session of db/manager.py
    pg,         \* the database catalog as committed: names of the objects that exist
    fs,         \* the bootstrap-scripts directory: script name -> <<>> or <<text>>
    bootlog,    \* history: one record per bootstrap invocation, oldest first
    etl_job,    \* table etl_admin.etl_job: its rows, oldest first
    loggers,    \* the logging module's registry: name -> the logger of that name
    cache       \* lru_cache of get_logger: the argument tuples it holds a result for

vars == <<users, nextId, now, ticks, tok, cfg, resp, okBefore, lastPw, sess, pg, fs, bootlog,
          etl_job, loggers, cache>>

bootVars == <<pg, fs, bootlog>>

auxVars == <<etl_job, loggers, cache>>

\* What the user service never touches
notStore == <<now, ticks, tok, cfg, okBefore, sess, bootVars, auxVars>>

----------------------------------------------------------------------------
(* Bounds *)

MaxUsers == 2
MaxTicks == 2
MaxWrites == 2
MaxUses == 3
MaxRuns == 3
MaxTextLen == 3
MaxJobs == 3

----------------------------------------------------------------------------
(* Optional values and text *)

None == <<>>
Some(x) == <<x>>
IsNone(o) == Len(o) = 0

LowerLetters ==
    << "a", "b", "c", "d", "e", "f", "g", "h", "i", "j", "k", "l", "m",
       "n", "o", "p", "q", "r", "s", "t", "u", "v", "w", "x", "y", "z" >>

UpperLetters ==
    << "A", "B", "C", "D", "E", "F", "G", "H", "I", "J", "K", "L", "M",
       "N", "O", "P", "Q", "R", "S", "T", "U", "V", "W", "X", "Y", "Z" >>

\* str.lower() on one character
LowerChar(c) ==
    IF \E i \in DOMAIN UpperLetters : UpperLetters[i] = c
    THEN LowerLetters[CHOOSE i \in DOMAIN UpperLetters : UpperLetters[i] = c]
    ELSE c

\* str.upper() on one character
UpperChar(c) ==
    IF \E i \in DOMAIN LowerLetters : LowerLetters[i] = c
    THEN UpperLetters[CHOOSE i \in DOMAIN LowerLetters : LowerLetters[i] = c]
    ELSE c

\* str.upper(): every character upper-cased
Upper(s) == [i \in DOMAIN s |-> UpperChar(s[i])]

\* str.lower(): every character lower-cased, length kept
Lower(s) == [i \in DOMAIN s |-> LowerChar(s[i])]

----------------------------------------------------------------------------
(* Input alphabets *)

UsernameInputs == { <<"a","n">>, <<"A","n">>, <<"b","o">> }
EmailInputs    == { <<"a","@","x">>, <<"A","@","x">>, <<"b","@","x">> }
PasswordInputs == { "Passw0rd1", "Passw0rd2" }
Roles          == { "admin", "user", "viewer" }
UserIds        == 1..MaxUsers

----------------------------------------------------------------------------
(* Password hashing: passlib CryptContext(bcrypt) *)

\* pwd_context.hash(password): a digest that verifies against its password alone
get_password_hash(password) ==
    [scheme |-> "bcrypt", digest |-> password]

\* pwd_context.verify(plain, hashed)
verify_password(plain_password, hashed_password) ==
    hashed_password.scheme = "bcrypt" /\ hashed_password.digest = plain_password

----------------------------------------------------------------------------
(* JWT helpers (auth/jwt_auth.py).  Time is counted in minutes.  A signed   *)
(* token is its claim set together with the key and algorithm that signed  *)
(* it; a claim set is a function from claim names to values.               *)

SECRET_KEY == "tu-clave-secreta-muy-segura-cambiar-en-produccion"
ALGORITHM == "HS256"
ACCESS_TOKEN_EXPIRE_MINUTES == 30
REFRESH_TOKEN_EXPIRE_DAYS == 7

\* timedelta(days=n) in minutes
Days(n) == n * 24 * 60

\* jose.jwt.encode(claims, key, algorithm)
jwt_encode(claims, key, algorithm) ==
    [payload |-> claims, key |-> key, alg |-> algorithm]

\* jose.jwt.decode(token, key, algorithms) at time t: the claims, or None where
\* jose raises JWTError (bad signature, algorithm not allowed, exp in the past)
jwt_decode(token, key, algorithms, t) ==
    IF token.key # key \/ token.alg \notin algorithms THEN None
    ELSE IF "exp" \in DOMAIN token.payload /\ token.payload.exp < t THEN None
    ELSE Some(token.payload)

\* dict.update on a copy of `data`
DictUpdate(data, more) ==
    [k \in DOMAIN data \cup DOMAIN more |-> IF k \in DOMAIN more THEN more[k] ELSE data[k]]

\* bool(expires_delta): None and timedelta(0) are falsy
Truthy(expires_delta) == ~IsNone(expires_delta) /\ expires_delta[1] # 0

\* create_access_token(data, expires_delta) called at time t
create_access_token(data, expires_delta, t) ==
    LET expire == IF Truthy(expires_delta)
                  THEN t + expires_delta[1]
                  ELSE t + ACCESS_TOKEN_EXPIRE_MINUTES
    IN jwt_encode(DictUpdate(data, [exp |-> expire]), SECRET_KEY, ALGORITHM)

\* create_refresh_token(data) called at time t
create_refresh_token(data, t) ==
    LET expire == t + Days(REFRESH_TOKEN_EXPIRE_DAYS)
    IN jwt_encode(DictUpdate(data, [exp |-> expire, type |-> "refresh"]), SECRET_KEY, ALGORITHM)

\* decode_token(token) called at time t
decode_token(token, t) == jwt_decode(token, SECRET_KEY, {ALGORITHM}, t)

\* payload.get("role", "user")
RoleOf(payload) == IF "role" \in DOMAIN payload THEN payload.role ELSE "user"

\* verify_token that drops the role claim and always answers the default role
verify_token_defaultRole(token, t) ==
    LET payload == decode_token(token, t)
    IN IF IsNone(payload) THEN None
       ELSE IF "sub" \notin DOMAIN payload[1] THEN None
       ELSE Some([username |-> payload[1].sub, role |-> "user"])

\* verify_token that rejects a token carrying the refresh type marker
verify_token_accessOnly(token, t) ==
    LET payload == decode_token(token, t)
    IN IF IsNone(payload) THEN None
       ELSE IF "sub" \notin DOMAIN payload[1] THEN None
       ELSE IF "type" \in DOMAIN payload[1] /\ payload[1].type = "refresh" THEN None
       ELSE Some([username |-> payload[1].sub, role |-> RoleOf(payload[1])])

\* verify_token(token) called at time t: an optional UserInToken
verify_token(token, t) ==
    LET payload == decode_token(token, t)
    IN IF IsNone(payload) THEN None
       ELSE IF "sub" \notin DOMAIN payload[1] THEN None
       ELSE Some([username |-> payload[1].sub, role |-> RoleOf(payload[1])])

\* create_token_pair(username, role) called at time t
create_token_pair(username, role, t) ==
    [ access_token |-> create_access_token([sub |-> username, role |-> role], None, t),
      refresh_token |-> create_refresh_token([sub |-> username, role |-> role], t),
      token_type |-> "bearer" ]

\* refresh_access_token without the check of the type claim
refresh_access_token_noTypeCheck(refresh_token, t) ==
    LET payload == decode_token(refresh_token, t)
    IN IF IsNone(payload) THEN None
       ELSE IF "sub" \notin DOMAIN payload[1] THEN None
       ELSE Some(create_access_token([sub |-> payload[1].sub, role |-> RoleOf(payload[1])], None, t))

\* refresh_access_token(refresh_token) called at time t: an optional token
refresh_access_token(refresh_token, t) ==
    LET payload == decode_token(refresh_token, t)
    IN IF IsNone(payload) THEN None
       ELSE IF "type" \notin DOMAIN payload[1] \/ payload[1].type # "refresh" THEN None
       ELSE IF "sub" \notin DOMAIN payload[1] THEN None
       ELSE Some(create_access_token([sub |-> payload[1].sub, role |-> RoleOf(payload[1])], None, t))

----------------------------------------------------------------------------
(* The usuario table (db/models.py) and the user service (auth/service.py) *)

\* Columns of Usuario; the nullable ones hold an optional value
Fields == { "username", "email", "hashed_password", "nombre", "role", "activo",
            "telegram_chat_id", "telegram_username", "telegram_verificado" }
NotNullFields == { "username", "email", "hashed_password", "role", "activo" }

\* Fields a UsuarioUpdate payload can carry
UsuarioUpdateFields == { "email", "nombre", "role", "activo",
                         "telegram_chat_id", "telegram_username", "telegram_verificado" }

\* UsuarioCreate.validate_username: the validated value is lower-cased
validate_username(v) == Lower(v)

\* db.query(Usuario).filter(Usuario.id == user_id).first()
get_user_by_id(db, user_id) ==
    IF user_id \in DOMAIN db THEN Some(user_id) ELSE None

\* db.query(Usuario).filter(Usuario.username == username.lower()).first()
get_user_by_username(db, username) ==
    LET hit == { i \in DOMAIN db : db[i].username = Lower(username) }
    IN IF hit = {} THEN None ELSE Some(CHOOSE i \in hit : \A j \in hit : i <= j)

\* db.query(Usuario).filter(Usuario.email == email.lower()).first()
get_user_by_email(db, email) ==
    LET hit == { i \in DOMAIN db : db[i].email = Lower(email) }
    IN IF hit = {} THEN None ELSE Some(CHOOSE i \in hit : \A j \in hit : i <= j)

user_exists(db, username) == ~IsNone(get_user_by_username(db, username))
email_exists(db, email) == ~IsNone(get_user_by_email(db, email))

\* The constraints the database enforces on commit for row `row` stored under `id`:
\* NOT NULL columns, and UNIQUE on username, email and telegram_chat_id
\* (byte-wise comparison; NULLs never collide)
NotNullOk(present) ==
    \A f \in DOMAIN present : f \in NotNullFields => ~IsNone(present[f])

UniqueOk(db, id, row) ==
    \A j \in DOMAIN db \ {id} :
        /\ db[j].username # row.username
        /\ db[j].email # row.email
        /\ \/ IsNone(row.telegram_chat_id)
           \/ db[j].telegram_chat_id # row.telegram_chat_id

\* The row create_user builds from a UsuarioCreate
NewUsuario(user_data) ==
    [ username |-> Lower(validate_username(user_data.username)),
      email |-> Lower(user_data.email),
      hashed_password |-> get_password_hash(user_data.password),
      nombre |-> user_data.nombre,
      role |-> user_data.role,
      activo |-> user_data.activo,
      telegram_chat_id |-> None,
      telegram_username |-> None,
      telegram_verificado |-> Some(FALSE) ]

\* A full overwrite: payload fields that were not set are written as None
SetAttr_overwrite(row, update_data) ==
    [ f \in Fields |->
        IF f \in DOMAIN update_data
        THEN (IF f \in NotNullFields THEN update_data[f][1] ELSE update_data[f])
        ELSE IF f \in UsuarioUpdateFields \ NotNullFields THEN None
        ELSE row[f] ]

\* The value setattr(db_user, field, value) leaves in the row
SetAttr(row, update_data) ==
    [ f \in Fields |->
        IF f \in DOMAIN update_data
        THEN (IF f \in NotNullFields THEN update_data[f][1] ELSE update_data[f])
        ELSE row[f] ]

Ret(op, args, status, val) == [op |-> op, args |-> args, status |-> status, val |-> val]

\* UserService.create_user
create_user(user_data) ==
    LET row == NewUsuario(user_data)
    IN /\ nextId <= MaxUsers
       /\ IF UniqueOk(users, nextId, row)
          THEN /\ users' = (nextId :> row) @@ users
               /\ nextId' = nextId + 1
               /\ resp' = Ret("create_user", <<user_data>>, "ok", Some(nextId))
          ELSE /\ UNCHANGED <<users, nextId>>
               /\ resp' = Ret("create_user", <<user_data>>, "IntegrityError", None)

\* UserService.update_user; update_data is model_dump(exclude_unset=True)
update_user(user_id, update_data) ==
    IF IsNone(get_user_by_id(users, user_id))
    THEN /\ UNCHANGED users
         /\ resp' = Ret("update_user", <<user_id, update_data>>, "ok", None)
    ELSE IF NotNullOk(update_data) /\ UniqueOk(users, user_id, SetAttr(users[user_id], update_data))
    THEN /\ users' = [users EXCEPT ![user_id] = SetAttr(users[user_id], update_data)]
         /\ resp' = Ret("update_user", <<user_id, update_data>>, "ok", Some(user_id))
    ELSE /\ UNCHANGED users
         /\ resp' = Ret("update_user", <<user_id, update_data>>, "IntegrityError", None)

\* UserService.delete_user (soft delete)
delete_user(user_id) ==
    IF IsNone(get_user_by_id(users, user_id))
    THEN /\ UNCHANGED users
         /\ resp' = Ret("delete_user", <<user_id>>, "ok", Some(FALSE))
    ELSE /\ users' = [users EXCEPT ![user_id].activo = FALSE]
         /\ resp' = Ret("delete_user", <<user_id>>, "ok", Some(TRUE))

\* UserService.hard_delete_user
hard_delete_user(user_id) ==
    IF IsNone(get_user_by_id(users, user_id))
    THEN /\ UNCHANGED users
         /\ resp' = Ret("hard_delete_user", <<user_id>>, "ok", Some(FALSE))
    ELSE /\ users' = [j \in DOMAIN users \ {user_id} |-> users[j]]
         /\ resp' = Ret("hard_delete_user", <<user_id>>, "ok", Some(TRUE))

\* authenticate_user without the check of the active flag
authenticate_user_result_inactiveOk(db, username, password) ==
    LET user == get_user_by_username(db, username)
    IN IF IsNone(user) THEN None
       ELSE IF ~verify_password(password, db[user[1]].hashed_password) THEN None
       ELSE user

\* The result of UserService.authenticate_user on store db
authenticate_user_result(db, username, password) ==
    LET user == get_user_by_username(db, username)
    IN IF IsNone(user) THEN None
       ELSE IF ~db[user[1]].activo THEN None
       ELSE IF ~verify_password(password, db[user[1]].hashed_password) THEN None
       ELSE user

\* UserService.authenticate_user
authenticate_user(username, password) ==
    /\ UNCHANGED users
    /\ resp' = Ret("authenticate_user", <<username, password>>, "ok",
                   authenticate_user_result(users, username, password))

\* UserService.change_password
change_password(user_id, current_password, new_password) ==
    IF IsNone(get_user_by_id(users, user_id))
    THEN /\ UNCHANGED users
         /\ resp' = Ret("change_password", <<user_id, current_password, new_password>>, "ok", Some(FALSE))
    ELSE IF ~verify_password(current_password, users[user_id].hashed_password)
    THEN /\ UNCHANGED users
         /\ resp' = Ret("change_password", <<user_id, current_password, new_password>>, "ok", Some(FALSE))
    ELSE /\ users' = [users EXCEPT ![user_id].hashed_password = get_password_hash(new_password)]
         /\ resp' = Ret("change_password", <<user_id, current_password, new_password>>, "ok", Some(TRUE))

\* UserService.reset_password
reset_password(user_id, new_password) ==
    IF IsNone(get_user_by_id(users, user_id))
    THEN /\ UNCHANGED users
         /\ resp' = Ret("reset_password", <<user_id, new_password>>, "ok", Some(FALSE))
    ELSE /\ users' = [users EXCEPT ![user_id].hashed_password = get_password_hash(new_password)]
         /\ resp' = Ret("reset_password", <<user_id, new_password>>, "ok", Some(TRUE))

\* UserService.link_telegram
link_telegram(user_id, telegram_chat_id, telegram_username) ==
    LET row == [users[user_id] EXCEPT !.telegram_chat_id = Some(telegram_chat_id),
                                      !.telegram_username = telegram_username,
                                      !.telegram_verificado = Some(TRUE)]
    IN IF IsNone(get_user_by_id(users, user_id))
       THEN /\ UNCHANGED users
            /\ resp' = Ret("link_telegram", <<user_id, telegram_chat_id>>, "ok", None)
       ELSE IF UniqueOk(users, user_id, row)
       THEN /\ users' = [users EXCEPT ![user_id] = row]
            /\ resp' = Ret("link_telegram", <<user_id, telegram_chat_id>>, "ok", Some(user_id))
       ELSE /\ UNCHANGED users
            /\ resp' = Ret("link_telegram", <<user_id, telegram_chat_id>>, "IntegrityError", None)

\* UserService.unlink_telegram
unlink_telegram(user_id) ==
    IF IsNone(get_user_by_id(users, user_id))
    THEN /\ UNCHANGED users
         /\ resp' = Ret("unlink_telegram", <<user_id>>, "ok", None)
    ELSE /\ users' = [users EXCEPT ![user_id].telegram_chat_id = None,
                                   ![user_id].telegram_username = None,
                                   ![user_id].telegram_verificado = Some(FALSE)]
         /\ resp' = Ret("unlink_telegram", <<user_id>>, "ok", Some(user_id))

----------------------------------------------------------------------------
(* Scoped database sessions (db/manager.py).  One caller at a time enters   *)
(* the context, works on the session and leaves, normally or by raising.    *)
(* calls lists what the context itself called on the session, in order.     *)

\* Errors a caller's block may raise: subclasses of Exception, and the
\* BaseExceptions that are not Exceptions (GeneratorExit is what closing a
\* suspended generator raises at its yield)
Exceptions == { "DBAPIError", "ValueError" }
BaseExceptions == Exceptions \cup { "KeyboardInterrupt", "GeneratorExit" }

SessionIdle ==
    [ helper |-> "none", pc |-> "idle", created |-> 0, calls |-> <<>>,
      pending |-> 0, committed |-> 0, raised |-> None, uses |-> 0, discarded |-> 0 ]

\* session = self.session_maker(), then the yield
session_enter(s, helper) ==
    [s EXCEPT !.helper = helper, !.pc = "open", !.created = 1, !.calls = <<>>,
              !.pending = 0, !.raised = None, !.uses = s.uses + 1, !.discarded = 0]

\* The except / finally clauses around the yield: rollback on an Exception,
\* close in every case
session_cleanup(exc) ==
    IF ~IsNone(exc) /\ exc[1] \in Exceptions THEN <<"rollback", "close">> ELSE <<"close">>

\* SyncDatabaseManager.session() that commits the pending changes on a normal
\* exit before closing
sync_session_exit_commit(s, exc) ==
    IF IsNone(exc)
    THEN [s EXCEPT !.pc = "done", !.calls = <<"commit", "close">>, !.pending = 0, !.raised = exc,
                   !.committed = s.committed + s.pending, !.discarded = 0]
    ELSE [s EXCEPT !.pc = "done", !.calls = session_cleanup(exc), !.pending = 0, !.raised = exc,
                   !.discarded = s.pending]

\* SyncDatabaseManager.session(), from the yield to the end; exc is what the
\* caller's block raised
sync_session_exit(s, exc) ==
    [s EXCEPT !.pc = "done", !.calls = session_cleanup(exc), !.pending = 0, !.raised = exc,
              !.discarded = s.pending]

\* AsyncDatabaseManager.session(), from the yield to the end: the same clauses,
\* inside "async with self.session_maker() as session", whose exit closes the
\* session as well
async_session_exit(s, exc) ==
    [s EXCEPT !.pc = "done", !.calls = session_cleanup(exc) \o <<"close">>, !.pending = 0, !.raised = exc,
              !.discarded = s.pending]

\* get_db(), from the yield to the end: try / finally with close alone; exc is
\* what was raised at the yield
get_db_exit(s, exc) ==
    [s EXCEPT !.pc = "done", !.calls = <<"close">>, !.pending = 0, !.raised = exc,
              !.discarded = s.pending]

----------------------------------------------------------------------------
(* Database bootstrap (db/bootstrap/bootstrap.py).  A script text is a      *)
(* sequence of tokens: a piece of SQL, the terminator ";" or white space.   *)
(* The catalog is the set of names of the objects that exist.  A connection *)
(* of engine.begin() works on a copy of the committed catalog, which         *)
(* replaces it on commit and is dropped on rollback.                        *)

\* scripts, in the order run_bootstrap lists them
scripts == <<"01_extensions.sql", "02_schemas.sql", "03_partition_functions.sql">>

Whitespace == {" ", "\n"}

\* str.split(';'): the pieces between terminators, empty pieces included
RECURSIVE split(_)
split(sql) ==
    IF \A i \in DOMAIN sql : sql[i] # ";" THEN <<sql>>
    ELSE LET i == CHOOSE k \in DOMAIN sql : sql[k] = ";" /\ \A j \in 1..(k - 1) : sql[j] # ";"
         IN <<SubSeq(sql, 1, i - 1)>> \o split(SubSeq(sql, i + 1, Len(sql)))

\* str.strip(): white space removed at both ends
RECURSIVE strip(_)
strip(statement) ==
    IF statement = <<>> THEN <<>>
    ELSE IF Head(statement) \in Whitespace THEN strip(Tail(statement))
    ELSE IF statement[Len(statement)] \in Whitespace
    THEN strip(SubSeq(statement, 1, Len(statement) - 1))
    ELSE statement

\* What the database does with one statement: the name it creates, whether an
\* existing object of that name is tolerated (IF NOT EXISTS); anything else
\* is an error
Sql ==
    [ s \in { "CREATE EXTENSION IF NOT EXISTS pg_trgm", "CREATE SCHEMA IF NOT EXISTS bdns",
              "CREATE SCHEMA etl", "CREATE FUNCTION create_partition" } |->
        CASE s = "CREATE EXTENSION IF NOT EXISTS pg_trgm" -> [creates |-> "pg_trgm", tolerant |-> TRUE]
          [] s = "CREATE SCHEMA IF NOT EXISTS bdns" -> [creates |-> "bdns", tolerant |-> TRUE]
          [] s = "CREATE SCHEMA etl" -> [creates |-> "etl", tolerant |-> FALSE]
          [] s = "CREATE FUNCTION create_partition" -> [creates |-> "create_partition", tolerant |-> FALSE] ]

\* conn.execute(text(stmt)) on a connection whose transaction sees catalog
execute(catalog, stmt) ==
    IF Len(stmt) # 1 \/ stmt[1] \notin DOMAIN Sql
    THEN [catalog |-> catalog, error |-> Some("ProgrammingError")]
    ELSE IF Sql[stmt[1]].creates \in catalog /\ ~Sql[stmt[1]].tolerant
    THEN [catalog |-> catalog, error |-> Some("ProgrammingError")]
    ELSE [catalog |-> catalog \cup {Sql[stmt[1]].creates}, error |-> None]

\* The loop of run_sql_file over the pieces still to come; conn carries the
\* transaction's catalog, the statements sent so far and the error raised
RECURSIVE run_statements(_, _)
run_statements(conn, pieces) ==
    IF pieces = <<>> \/ ~IsNone(conn.error) THEN conn
    ELSE LET stmt == strip(Head(pieces))
         IN IF stmt = <<>> THEN run_statements(conn, Tail(pieces))
            ELSE LET r == execute(conn.catalog, stmt)
                 IN run_statements([conn EXCEPT !.catalog = r.catalog,
                                                !.executed = Append(@, stmt),
                                                !.error = r.error],
                                   Tail(pieces))

\* run_sql_file that logs a failing statement and carries on
run_sql_file_swallow(conn, sql) == [run_statements(conn, split(sql)) EXCEPT !.error = None]

\* run_sql_file(conn, filepath), sql being the text read from the file
run_sql_file(conn, sql) == run_statements(conn, split(sql))

\* The loop of run_bootstrap from the i-th script on
RECURSIVE run_scripts(_, _, _)
run_scripts(conn, bootstrap_dir, i) ==
    IF i > Len(scripts) \/ ~IsNone(conn.error) THEN conn
    ELSE IF ~IsNone(bootstrap_dir[scripts[i]])
    THEN run_scripts(run_sql_file(conn, bootstrap_dir[scripts[i]][1]), bootstrap_dir, i + 1)
    ELSE run_scripts([conn EXCEPT !.warnings = Append(@, scripts[i])], bootstrap_dir, i + 1)

\* run_bootstrap(bootstrap_dir) against the committed catalog: engine.begin()
\* commits when the block ends normally, rolls back and re-raises otherwise
run_bootstrap(bootstrap_dir, committed) ==
    LET conn == run_scripts([catalog |-> committed, executed |-> <<>>,
                             warnings |-> <<>>, error |-> None], bootstrap_dir, 1)
    IN [ pg |-> IF IsNone(conn.error) THEN conn.catalog ELSE committed,
         executed |-> conn.executed,
         warnings |-> conn.warnings,
         error |-> conn.error ]

\* bootstrap_if_needed that runs the scripts without looking for the schema
bootstrap_if_needed_unguarded(bootstrap_dir, committed) ==
    LET r == run_bootstrap(bootstrap_dir, committed)
    IN [ pg |-> r.pg, ret |-> IF IsNone(r.error) THEN "True" ELSE "raised",
         executed |-> r.executed, warnings |-> r.warnings, error |-> r.error ]

\* bootstrap_if_needed with the test of the schema check inverted
bootstrap_if_needed_inverted(bootstrap_dir, committed) ==
    LET exists == "bdns" \in committed
    IN IF exists
       THEN LET r == run_bootstrap(bootstrap_dir, committed)
            IN [ pg |-> r.pg, ret |-> IF IsNone(r.error) THEN "True" ELSE "raised",
                 executed |-> r.executed, warnings |-> r.warnings, error |-> r.error ]
       ELSE [ pg |-> committed, ret |-> "False",
              executed |-> <<>>, warnings |-> <<>>, error |-> None ]

\* bootstrap_if_needed(), bootstrap_dir being the directory it looks into
bootstrap_if_needed(bootstrap_dir, committed) ==
    LET exists == "bdns" \in committed
    IN IF ~exists
       THEN LET r == run_bootstrap(bootstrap_dir, committed)
            IN [ pg |-> r.pg, ret |-> IF IsNone(r.error) THEN "True" ELSE "raised",
                 executed |-> r.executed, warnings |-> r.warnings, error |-> r.error ]
       ELSE [ pg |-> committed, ret |-> "False",
              executed |-> <<>>, warnings |-> <<>>, error |-> None ]

\* Nothing has been written to the other tables, and no logger was asked for
NoAux == etl_job = <<>> /\ loggers = <<>> /\ cache = {}

\* No script installed, an empty catalog, no invocation yet
NoBootstrap ==
    /\ pg = {}
    /\ fs = [n \in {scripts[i] : i \in DOMAIN scripts} |-> None]
    /\ bootlog = <<>>

----------------------------------------------------------------------------
(* Settings (config/base.py) *)

\* Field defaults of BaseSettings
SettingsDefaults ==
    [ JWT_SECRET_KEY |-> "change-me-in-production",
      JWT_ALGORITHM |-> "HS256",
      JWT_ACCESS_TOKEN_EXPIRE_MINUTES |-> 30,
      JWT_REFRESH_TOKEN_EXPIRE_DAYS |-> 7 ]

\* BaseSettings(): each field from the environment, else its default
BaseSettings(env) ==
    [ f \in DOMAIN SettingsDefaults |-> IF f \in DOMAIN env THEN env[f] ELSE SettingsDefaults[f] ]

----------------------------------------------------------------------------
(* Initial state: an empty usuario table, no token issued, default settings *)

InitStore ==
    /\ users = <<>>
    /\ nextId = 1
    /\ lastPw = <<>>
    /\ resp = Ret("init", <<>>, "ok", None)

IdleRest ==
    /\ now = 0
    /\ ticks = 0
    /\ tok = None
    /\ cfg = BaseSettings([v \in {} |-> ""])
    /\ okBefore = FALSE
    /\ sess = SessionIdle
    /\ NoBootstrap
    /\ NoAux

----------------------------------------------------------------------------
(* User-service steps.  Each step is one call of the service; lastPw records *)
(* which password the call set, judged by the passwords themselves.         *)

\* email of the account of `username` in the runs that do not vary emails
EmailOf(username) == Lower(username) \o <<"@", "x">>

UsuarioCreate(username, email, password, nombre, role, activo) ==
    [username |-> username, email |-> email, password |-> password,
     nombre |-> nombre, role |-> role, activo |-> activo]

CreateUser(user_data) ==
    /\ create_user(user_data)
    /\ lastPw' = IF resp'.status = "ok" THEN (nextId :> user_data.password) @@ lastPw ELSE lastPw
    /\ UNCHANGED notStore

UpdateUser(user_id, update_data) ==
    /\ update_user(user_id, update_data)
    /\ UNCHANGED <<nextId, lastPw>>
    /\ UNCHANGED notStore

DeleteUser(user_id) ==
    /\ delete_user(user_id)
    /\ UNCHANGED <<nextId, lastPw>>
    /\ UNCHANGED notStore

HardDeleteUser(user_id) ==
    /\ hard_delete_user(user_id)
    /\ lastPw' = [j \in DOMAIN lastPw \ {user_id} |-> lastPw[j]]
    /\ UNCHANGED nextId
    /\ UNCHANGED notStore

AuthenticateUser(username, password) ==
    /\ authenticate_user(username, password)
    /\ UNCHANGED <<nextId, lastPw>>
    /\ UNCHANGED notStore

ChangePassword(user_id, current_password, new_password) ==
    /\ change_password(user_id, current_password, new_password)
    /\ lastPw' = IF user_id \in DOMAIN lastPw /\ lastPw[user_id] = current_password
                 THEN [lastPw EXCEPT ![user_id] = new_password]
                 ELSE lastPw
    /\ UNCHANGED nextId
    /\ UNCHANGED notStore

ResetPassword(user_id, new_password) ==
    /\ reset_password(user_id, new_password)
    /\ lastPw' = IF user_id \in DOMAIN lastPw
                 THEN [lastPw EXCEPT ![user_id] = new_password]
                 ELSE lastPw
    /\ UNCHANGED nextId
    /\ UNCHANGED notStore

LinkTelegram(user_id, telegram_chat_id, telegram_username) ==
    /\ link_telegram(user_id, telegram_chat_id, telegram_username)
    /\ UNCHANGED <<nextId, lastPw>>
    /\ UNCHANGED notStore

UnlinkTelegram(user_id) ==
    /\ unlink_telegram(user_id)
    /\ UNCHANGED <<nextId, lastPw>>
    /\ UNCHANGED notStore

----------------------------------------------------------------------------
(* SpecPw: accounts, activation and passwords *)

ActivoPayloads == { [activo |-> Some(TRUE)], [activo |-> Some(FALSE)] }

NextPw ==
    \/ \E u \in UsernameInputs, p \in PasswordInputs, a \in BOOLEAN :
          CreateUser(UsuarioCreate(u, EmailOf(u), p, None, "user", a))
    \/ \E i \in UserIds, d \in ActivoPayloads : UpdateUser(i, d)
    \/ \E i \in UserIds : DeleteUser(i)
    \/ \E i \in UserIds : HardDeleteUser(i)
    \/ \E i \in UserIds, c \in PasswordInputs, n \in PasswordInputs : ChangePassword(i, c, n)
    \/ \E i \in UserIds, n \in PasswordInputs : ResetPassword(i, n)
    \/ \E u \in UsernameInputs, p \in PasswordInputs : AuthenticateUser(u, p)

InitPw == InitStore /\ IdleRest

SpecPw == InitPw /\ [][NextPw]_vars

----------------------------------------------------------------------------
(* C8 *)

\* The accounts authenticate_user(username, password) is to accept: the row whose
\* username is the lower-cased one, active, whose most recently set password is it
AuthExpected(username, password) ==
    { i \in DOMAIN users : /\ users[i].username = Lower(username)
                           /\ users[i].activo
                           /\ lastPw[i] = password }

C8_AuthResult ==
    resp.op = "authenticate_user" =>
        LET want == AuthExpected(resp.args[1], resp.args[2])
        IN IF want = {} THEN resp.val = None
           ELSE resp.val # None /\ resp.val[1] \in want

C8_FailedChange ==
    (/\ resp'.op = "change_password"
     /\ resp'.args[1] \in DOMAIN users
     /\ lastPw[resp'.args[1]] # resp'.args[2])
    => (resp'.val = Some(FALSE) /\ users' = users)

\* C8: authenticate_user returns the user exactly when a row with the lower-cased
\* username exists, is active, and the password is the one most recently set by
\* create_user, a verified change_password or reset_password; every other case
\* returns None; a change_password whose current password does not verify returns
\* False and leaves the table unchanged.
C8_Authenticate == []C8_AuthResult /\ [][C8_FailedChange]_vars

\* C8 witness: a login under another letter case of the username succeeded with a
\* password set by change_password or reset_password, not the one of create_user
C8_Witness ==
    /\ resp.op = "authenticate_user"
    /\ resp.val # None
    /\ resp.args[1] # Lower(resp.args[1])
    /\ Cardinality(DOMAIN users) = 2
    /\ resp.args[2] = "Passw0rd2"

----------------------------------------------------------------------------
(* SpecCrud: profile edits, Telegram linkage and lookups *)

UpdatePayloads ==
    { [role |-> Some("viewer")],
      [email |-> Some(<<"A", "@", "x">>)],
      [email |-> Some(<<"b", "@", "x">>)],
      [activo |-> Some(FALSE)],
      [nombre |-> Some("N"), telegram_chat_id |-> Some("c1")],
      [role |-> None],
      [f \in {} |-> None] }

GetUserByUsername(username) ==
    /\ resp' = Ret("get_user_by_username", <<username>>, "ok", get_user_by_username(users, username))
    /\ UNCHANGED <<users, nextId, lastPw>>
    /\ UNCHANGED notStore

GetUserByEmail(email) ==
    /\ resp' = Ret("get_user_by_email", <<email>>, "ok", get_user_by_email(users, email))
    /\ UNCHANGED <<users, nextId, lastPw>>
    /\ UNCHANGED notStore

NextCrud ==
    \/ \E u \in UsernameInputs, e \in EmailInputs :
          CreateUser(UsuarioCreate(u, e, "Passw0rd1", None, "user", TRUE))
    \/ \E i \in UserIds, d \in UpdatePayloads : UpdateUser(i, d)
    \/ \E i \in UserIds : DeleteUser(i)
    \/ \E i \in UserIds : LinkTelegram(i, "c1", None)
    \/ \E i \in UserIds : UnlinkTelegram(i)
    \/ \E u \in UsernameInputs : GetUserByUsername(u)
    \/ \E e \in EmailInputs : GetUserByEmail(e)

InitCrud == InitStore /\ IdleRest

SpecCrud == InitCrud /\ [][NextCrud]_vars

----------------------------------------------------------------------------
(* C9 *)

\* The value a payload entry stores in column f
Stored(f, v) == IF f \in NotNullFields THEN v[1] ELSE v

C9_Frame ==
    resp'.op = "update_user" =>
        LET i == resp'.args[1]
            d == resp'.args[2]
        IN IF i \notin DOMAIN users
           THEN resp'.val = None /\ users' = users
           ELSE /\ DOMAIN users' = DOMAIN users
                /\ \A j \in DOMAIN users \ {i} : users'[j] = users[j]
                /\ \A f \in Fields \ DOMAIN d : users'[i][f] = users[i][f]
                /\ resp'.status = "ok" =>
                      /\ resp'.val = Some(i)
                      /\ \A f \in DOMAIN d : users'[i][f] = Stored(f, d[f])

----------------------------------------------------------------------------
(* C10 *)

\* C10: every stored username and email is lower-case, no two rows share a
\* username or an email, and the lookups find a row under every letter case of
\* its username and of its email.
C10_LowerCaseUnique ==
    /\ \A i \in DOMAIN users :
          /\ users[i].username = Lower(users[i].username)
          /\ users[i].email = Lower(users[i].email)
    /\ \A i, j \in DOMAIN users :
          i # j => /\ Lower(users[i].username) # Lower(users[j].username)
                   /\ Lower(users[i].email) # Lower(users[j].email)
    /\ \A i \in DOMAIN users :
          /\ \A u \in UsernameInputs :
                Lower(u) = Lower(users[i].username) => user_exists(users, u)
          /\ \A e \in EmailInputs :
                Lower(e) = Lower(users[i].email) => email_exists(users, e)

----------------------------------------------------------------------------
(* SpecJwt: the JWT helpers under a moving clock.  tok is the token under   *)
(* test with a record of the call that produced it.                        *)

ClaimInputs ==
    { [sub |-> <<"a", "n">>, role |-> "admin"],
      [sub |-> <<"A", "n">>],
      [role |-> "admin"],
      [sub |-> <<"b", "o">>, role |-> "viewer", type |-> "refresh"],
      [sub |-> <<"b", "o">>, role |-> "user", type |-> "access", exp |-> 0] }

LifetimeInputs == { None, Some(0), Some(1), Some(45) }

TickSteps == { 1, ACCESS_TOKEN_EXPIRE_MINUTES, Days(REFRESH_TOKEN_EXPIRE_DAYS) }

EnvInputs ==
    { [v \in {} |-> ""],
      [JWT_SECRET_KEY |-> "k9-prod-secret-0123456789-0123456789", JWT_ACCESS_TOKEN_EXPIRE_MINUTES |-> 60] }

Made(jwt, by, data, delta) == [jwt |-> jwt, by |-> by, data |-> data, delta |-> delta, t0 |-> now]

notJwt == <<users, nextId, lastPw, sess, cfg, bootVars, auxVars>>

Tick(d) ==
    /\ ticks < MaxTicks
    /\ ticks' = ticks + 1
    /\ now' = now + d
    /\ resp' = Ret("tick", <<d>>, "ok", None)
    /\ UNCHANGED <<users, nextId, tok, cfg, okBefore, lastPw, sess, bootVars, auxVars>>

CreateAccessToken(data, expires_delta) ==
    /\ tok' = Some(Made(create_access_token(data, expires_delta, now), "create_access_token", data, expires_delta))
    /\ resp' = Ret("create_access_token", <<data, expires_delta>>, "ok", Some(tok'[1].jwt))
    /\ okBefore' = FALSE
    /\ UNCHANGED <<now, ticks>>
    /\ UNCHANGED notJwt

CreateRefreshToken(data) ==
    /\ tok' = Some(Made(create_refresh_token(data, now), "create_refresh_token", data, None))
    /\ resp' = Ret("create_refresh_token", <<data>>, "ok", Some(tok'[1].jwt))
    /\ okBefore' = FALSE
    /\ UNCHANGED <<now, ticks>>
    /\ UNCHANGED notJwt

\* create_token_pair, after which the caller goes on with one token of the pair
CreateTokenPair(username, role, which) ==
    LET pair == create_token_pair(username, role, now)
    IN /\ tok' = Some(Made(pair[which], which, [sub |-> username, role |-> role], None))
       /\ resp' = Ret("create_token_pair", <<username, role>>, "ok", Some(pair))
       /\ okBefore' = FALSE
       /\ UNCHANGED <<now, ticks>>
       /\ UNCHANGED notJwt

\* A third party re-signs the claims of the token with a key of its own
ForgeToken ==
    /\ ~IsNone(tok)
    /\ tok[1].by # "forged"
    /\ tok' = Some([tok[1] EXCEPT !.jwt.key = "attacker-key", !.by = "forged"])
    /\ resp' = Ret("forge", <<>>, "ok", None)
    /\ okBefore' = FALSE
    /\ UNCHANGED <<now, ticks>>
    /\ UNCHANGED notJwt

DecodeToken ==
    /\ ~IsNone(tok)
    /\ resp' = Ret("decode_token", <<tok[1].jwt>>, "ok", decode_token(tok[1].jwt, now))
    /\ UNCHANGED <<tok, now, ticks, okBefore>>
    /\ UNCHANGED notJwt

VerifyToken ==
    /\ ~IsNone(tok)
    /\ resp' = Ret("verify_token", <<tok[1].jwt>>, "ok", verify_token(tok[1].jwt, now))
    /\ UNCHANGED <<tok, now, ticks, okBefore>>
    /\ UNCHANGED notJwt

RefreshAccessToken ==
    /\ ~IsNone(tok)
    /\ resp' = Ret("refresh_access_token", <<tok[1].jwt>>, "ok", refresh_access_token(tok[1].jwt, now))
    /\ UNCHANGED <<tok, now, ticks, okBefore>>
    /\ UNCHANGED notJwt

NextJwt ==
    \/ \E d \in TickSteps : Tick(d)
    \/ \E c \in ClaimInputs, l \in LifetimeInputs : CreateAccessToken(c, l)
    \/ \E c \in ClaimInputs : CreateRefreshToken(c)
    \/ \E u \in UsernameInputs, r \in Roles, w \in {"access_token", "refresh_token"} :
          CreateTokenPair(u, r, w)
    \/ ForgeToken
    \/ DecodeToken
    \/ VerifyToken
    \/ RefreshAccessToken

InitJwt ==
    /\ InitStore
    /\ now = 0
    /\ ticks = 0
    /\ tok = None
    /\ cfg \in { BaseSettings(env) : env \in EnvInputs }
    /\ okBefore = FALSE
    /\ sess = SessionIdle
    /\ NoBootstrap
    /\ NoAux

SpecJwt == InitJwt /\ [][NextJwt]_vars

----------------------------------------------------------------------------
(* C4 *)

\* C4: verify_token on the access token of create_token_pair(username, role), at
\* any time up to the token's expiry, returns a user with that username and that
\* role; verify_token returns None for a token without a sub claim and for a
\* token whose signature does not verify.
C4_RoundTrip ==
    resp.op = "verify_token" =>
        /\ (tok[1].by = "access_token" /\ now <= tok[1].jwt.payload.exp)
              => resp.val = Some([username |-> tok[1].data.sub, role |-> tok[1].data.role])
        /\ ("sub" \notin DOMAIN tok[1].jwt.payload \/ tok[1].jwt.key # SECRET_KEY)
              => resp.val = None

\* C4 witness: the access token of a pair issued for an admin under a mixed-case
\* username was verified some time after it was issued, and a user came back
C4_Witness ==
    /\ resp.op = "verify_token"
    /\ tok[1].by = "access_token"
    /\ tok[1].data.role = "admin"
    /\ tok[1].data.sub = <<"A", "n">>
    /\ now > tok[1].t0
    /\ resp.val # None

----------------------------------------------------------------------------
(* C5 *)

\* C5: a token of create_access_token(data, d) made at t0 with an explicit
\* lifetime d expires at t0 + d (at t0 + 30 minutes only when no lifetime is
\* passed), and decode_token and verify_token return None for it at any time
\* later than t0 + d.
C5_ExplicitLifetime ==
    /\ resp.op = "create_access_token" =>
          resp.val[1].payload.exp =
              now + (IF IsNone(resp.args[2]) THEN ACCESS_TOKEN_EXPIRE_MINUTES ELSE resp.args[2][1])
    /\ (/\ resp.op \in {"decode_token", "verify_token"}
        /\ tok[1].by = "create_access_token"
        /\ ~IsNone(tok[1].delta)
        /\ now > tok[1].t0 + tok[1].delta[1])
       => resp.val = None

----------------------------------------------------------------------------
(* C6 *)

CarriesRefreshType(data) == "type" \in DOMAIN data /\ data.type = "refresh"

\* C6 as stated: refresh_access_token returns None for every token of
\* create_access_token, whatever claim set the caller passed, and returns a
\* token only for tokens of create_refresh_token.
C6_AnyClaimSet ==
    resp.op = "refresh_access_token" =>
        /\ tok[1].by \in {"create_access_token", "access_token"} => resp.val = None
        /\ resp.val # None => tok[1].by \in {"create_refresh_token", "refresh_token"}

\* C6 as amended: refresh_access_token returns None for every token of
\* create_access_token whose claim set does not itself carry type = "refresh"
\* (the access token of create_token_pair included); it returns a token only for
\* a correctly signed, unexpired token with a sub claim whose type claim is
\* "refresh" (a token of create_refresh_token, or one of create_access_token
\* whose caller passed type = "refresh"), and the new token carries the same sub,
\* and the same role or "user" where the presented token carries no role.
C6_RefreshDiscipline ==
    resp.op = "refresh_access_token" =>
        /\ (tok[1].by \in {"create_access_token", "access_token"} /\ ~CarriesRefreshType(tok[1].data))
              => resp.val = None
        /\ resp.val # None =>
              /\ tok[1].jwt.key = SECRET_KEY
              /\ now <= tok[1].jwt.payload.exp
              /\ "sub" \in DOMAIN tok[1].data
              /\ \/ tok[1].by \in {"create_refresh_token", "refresh_token"}
                 \/ tok[1].by = "create_access_token" /\ CarriesRefreshType(tok[1].data)
              /\ resp.val[1].payload.sub = tok[1].data.sub
              /\ resp.val[1].payload.role =
                    (IF "role" \in DOMAIN tok[1].data THEN tok[1].data.role ELSE "user")

\* C6 witness: the access token of a pair was refused by refresh_access_token
\* while decode_token accepts it
C6_Witness ==
    /\ resp.op = "refresh_access_token"
    /\ tok[1].by = "access_token"
    /\ resp.val = None
    /\ decode_token(tok[1].jwt, now) # None

----------------------------------------------------------------------------
(* C7 *)

\* C7: in a process whose settings carry a signing secret of its own, tokens are
\* signed with that secret and algorithm, the default access lifetime is the
\* configured one, and decode_token rejects a token signed with the hard-coded
\* secret.
C7_ConfiguredSecret ==
    cfg.JWT_SECRET_KEY # SettingsDefaults.JWT_SECRET_KEY =>
        /\ resp.op \in {"create_access_token", "create_refresh_token"} =>
              /\ resp.val[1].key = cfg.JWT_SECRET_KEY
              /\ resp.val[1].alg = cfg.JWT_ALGORITHM
        /\ (resp.op = "create_access_token" /\ IsNone(resp.args[2])) =>
              resp.val[1].payload.exp = now + cfg.JWT_ACCESS_TOKEN_EXPIRE_MINUTES
        /\ (resp.op = "decode_token" /\ resp.args[1].key = SECRET_KEY) => resp.val = None

----------------------------------------------------------------------------
(* Request-authorization gates (auth/dependencies.py) *)

Http(status, detail, user) == [status |-> status, detail |-> detail, user |-> user]

\* get_current_user that looks the user up but does not read the active flag
get_current_user_noActiveCheck(token, db, t) ==
    LET user == verify_token(token, t)
    IN IF IsNone(user)
       THEN Http("401", "Token invalido o expirado", None)
       ELSE IF IsNone(get_user_by_username(db, user[1].username))
       THEN Http("401", "Usuario no encontrado o inactivo", None)
       ELSE Http("200", "", user)

\* get_current_user that answers with the role stored for the user
get_current_user_storedRole(token, db, t) ==
    LET user == verify_token(token, t)
    IN IF IsNone(user)
       THEN Http("401", "Token invalido o expirado", None)
       ELSE LET db_user == get_user_by_username(db, user[1].username)
            IN IF IsNone(db_user) \/ ~db[db_user[1]].activo
               THEN Http("401", "Usuario no encontrado o inactivo", None)
               ELSE Http("200", "", Some([username |-> user[1].username,
                                          role |-> db[db_user[1]].role]))

\* get_current_user(credentials, db) called at time t: the UserInToken it
\* returns (status "200") or the HTTPException it raises
get_current_user(token, db, t) ==
    LET user == verify_token(token, t)
    IN IF IsNone(user)
       THEN Http("401", "Token invalido o expirado", None)
       ELSE LET db_user == get_user_by_username(db, user[1].username)
            IN IF IsNone(db_user) \/ ~db[db_user[1]].activo
               THEN Http("401", "Usuario no encontrado o inactivo", None)
               ELSE Http("200", "", user)

\* role_checker that answers a role mismatch with 401
role_checker_unauthorized(allowed_roles, current_user) ==
    IF current_user.role \notin allowed_roles
    THEN Http("401", "Acceso denegado", None)
    ELSE Http("200", "", Some(current_user))

\* role_checker of require_role(*allowed_roles), given the resolved current user
role_checker(allowed_roles, current_user) ==
    IF current_user.role \notin allowed_roles
    THEN Http("403", "Acceso denegado", None)
    ELSE Http("200", "", Some(current_user))

\* The dependency require_role(*allowed_roles) as the framework runs it:
\* get_current_user first, role_checker only when it returned a user
require_role(allowed_roles, token, db, t) ==
    LET current == get_current_user(token, db, t)
    IN IF current.status # "200" THEN current
       ELSE role_checker(allowed_roles, current.user[1])

\* get_optional_user that returns the token's user without reading the active flag
get_optional_user_noActiveCheck(credentials, db, t) ==
    IF IsNone(credentials) THEN Http("200", "", None)
    ELSE LET user == verify_token(credentials[1], t)
         IN IF IsNone(user) THEN Http("200", "", None)
            ELSE IF IsNone(get_user_by_username(db, user[1].username))
            THEN Http("200", "", None)
            ELSE Http("200", "", user)

\* get_optional_user(credentials, db) called at time t; credentials is None when
\* the request carries no bearer token (HTTPBearer(auto_error=False))
get_optional_user(credentials, db, t) ==
    IF IsNone(credentials) THEN Http("200", "", None)
    ELSE LET user == verify_token(credentials[1], t)
         IN IF IsNone(user) THEN Http("200", "", None)
            ELSE LET db_user == get_user_by_username(db, user[1].username)
                 IN IF IsNone(db_user) \/ ~db[db_user[1]].activo
                    THEN Http("200", "", None)
                    ELSE Http("200", "", user)

\* require_admin, require_user, require_viewer
AllowedRoleSets == { {"admin"}, {"admin", "user"}, {"admin", "user", "viewer"} }

notGate == <<users, nextId, lastPw, tok, now, ticks, cfg, sess, bootVars, auxVars>>

GetCurrentUser ==
    /\ ~IsNone(tok)
    /\ LET r == get_current_user(tok[1].jwt, users, now)
       IN /\ resp' = Ret("get_current_user", <<tok[1].jwt>>, r.status, r.user)
          /\ okBefore' = (okBefore \/ r.status = "200")
    /\ UNCHANGED notGate

RequireRole(allowed_roles) ==
    /\ ~IsNone(tok)
    /\ LET r == require_role(allowed_roles, tok[1].jwt, users, now)
       IN resp' = Ret("require_role", <<tok[1].jwt, allowed_roles>>, r.status, r.user)
    /\ UNCHANGED okBefore
    /\ UNCHANGED notGate

\* A request to an endpoint depending on get_optional_user, with or without the
\* bearer token the client holds
GetOptionalUser(withCredentials) ==
    /\ withCredentials => ~IsNone(tok)
    /\ LET credentials == IF withCredentials THEN Some(tok[1].jwt) ELSE None
           r == get_optional_user(credentials, users, now)
       IN resp' = Ret("get_optional_user", <<credentials>>, r.status, r.user)
    /\ UNCHANGED okBefore
    /\ UNCHANGED notGate

----------------------------------------------------------------------------
(* Spec: accounts, issued tokens, the clock and the gates *)

GatePayloads == { [activo |-> Some(TRUE)], [activo |-> Some(FALSE)] }

GateTickSteps == { ACCESS_TOKEN_EXPIRE_MINUTES }

GateSubjects == { <<"A", "n">>, <<"b", "o">> }

Next ==
    \/ \E u \in UsernameInputs, a \in BOOLEAN :
          CreateUser(UsuarioCreate(u, EmailOf(u), "Passw0rd1", None, "user", a))
    \/ \E i \in UserIds, d \in GatePayloads : UpdateUser(i, d)
    \/ \E i \in UserIds : DeleteUser(i)
    \/ \E i \in UserIds : HardDeleteUser(i)
    \/ \E u \in GateSubjects, r \in Roles : CreateTokenPair(u, r, "access_token")
    \/ ForgeToken
    \/ \E d \in GateTickSteps : Tick(d)
    \/ GetCurrentUser
    \/ \E a \in AllowedRoleSets : RequireRole(a)
    \/ \E c \in BOOLEAN : GetOptionalUser(c)

Init == InitStore /\ IdleRest

Spec == Init /\ [][Next]_vars

----------------------------------------------------------------------------
(* C1, C2 *)

\* The presented token was signed by this service and has not expired
TokenValid == tok[1].jwt.key = SECRET_KEY /\ now <= tok[1].jwt.payload.exp

\* An active row exists for the username the token was issued for
ActiveAccount == \E i \in DOMAIN users : users[i].username = Lower(tok[1].data.sub) /\ users[i].activo

\* C1: for an unexpired access token issued by create_token_pair, every
\* get_current_user call fails with 401 while the account it names is inactive or
\* absent, and returns the token's user while the account is active.
C1_RevokedOnNextRequest ==
    (resp.op = "get_current_user" /\ tok[1].by = "access_token" /\ now <= tok[1].jwt.payload.exp) =>
        IF ActiveAccount
        THEN /\ resp.status = "200"
             /\ resp.val = Some([username |-> tok[1].data.sub, role |-> tok[1].data.role])
        ELSE resp.status = "401" /\ resp.val = None

\* C1 witness: a token get_current_user accepted earlier is refused with 401
\* before its expiry, the account it names being inactive now
C1_Witness ==
    /\ resp.op = "get_current_user"
    /\ tok[1].by = "access_token"
    /\ okBefore
    /\ now <= tok[1].jwt.payload.exp
    /\ resp.status = "401"
    /\ \E i \in DOMAIN users : users[i].username = Lower(tok[1].data.sub) /\ ~users[i].activo

\* C2: a require_role gate answers 401 when the token does not verify or the
\* account is missing or inactive, whatever the allowed roles; 403 when the token
\* verifies, the account is active and the token's role is not allowed; and
\* returns the user in exactly the remaining case.
C2_GateLayering ==
    resp.op = "require_role" =>
        IF ~TokenValid \/ ~ActiveAccount THEN resp.status = "401" /\ resp.val = None
        ELSE IF tok[1].data.role \notin resp.args[2] THEN resp.status = "403" /\ resp.val = None
        ELSE /\ resp.status = "200"
             /\ resp.val = Some([username |-> tok[1].data.sub, role |-> tok[1].data.role])

\* C2 witness: require_role("admin") answered 403 to the unexpired token of an
\* active account whose token role is "user"
C2_Witness ==
    /\ resp.op = "require_role"
    /\ resp.args[2] = {"admin"}
    /\ tok[1].data.role = "user"
    /\ TokenValid
    /\ ActiveAccount
    /\ resp.status = "403"

----------------------------------------------------------------------------
(* C11 *)

\* C11: get_optional_user never raises; given a bearer token it returns the user
\* get_current_user returns on the same token, store and time when that call
\* succeeds, and no user when that call answers 401; without a bearer token it
\* returns no user.
C11_OptionalRefinesCurrent ==
    resp.op = "get_optional_user" =>
        /\ resp.status = "200"
        /\ IF IsNone(resp.args[1]) THEN resp.val = None
           ELSE LET r == get_current_user(resp.args[1][1], users, now)
                IN IF r.status = "200"
                   THEN resp.val = r.user /\ ~IsNone(resp.val)
                   ELSE r.status = "401" /\ resp.val = None

\* C11 witness: get_optional_user returned no user for an unexpired token signed
\* by this service whose account is inactive
C11_Witness ==
    /\ resp.op = "get_optional_user"
    /\ ~IsNone(resp.args[1])
    /\ TokenValid
    /\ resp.status = "200"
    /\ resp.val = None
    /\ \E i \in DOMAIN users : users[i].username = Lower(tok[1].data.sub) /\ ~users[i].activo

----------------------------------------------------------------------------
(* SpecSession: uses of the scoped sessions *)

notSession == <<users, nextId, lastPw, tok, now, ticks, cfg, okBefore, bootVars, auxVars>>

SessionEnter(helper) ==
    /\ sess.pc \in {"idle", "done"}
    /\ sess.uses < MaxUses
    /\ sess' = session_enter(sess, helper)
    /\ resp' = Ret("session", <<helper>>, "entered", None)
    /\ UNCHANGED notSession

\* The caller's block changes an object of the session
SessionAdd ==
    /\ sess.pc = "open"
    /\ sess.pending + sess.committed < MaxWrites
    /\ sess' = [sess EXCEPT !.pending = sess.pending + 1]
    /\ resp' = Ret("session.add", <<>>, "ok", None)
    /\ UNCHANGED notSession

\* The caller's block commits
SessionCommit ==
    /\ sess.pc = "open"
    /\ sess.pending > 0
    /\ sess' = [sess EXCEPT !.committed = sess.committed + sess.pending, !.pending = 0]
    /\ resp' = Ret("session.commit", <<>>, "ok", None)
    /\ UNCHANGED notSession

\* The caller's block ends: normally (exc = None) or by raising exc
SessionExit(exc) ==
    /\ sess.pc = "open"
    /\ sess' = CASE sess.helper = "async" -> async_session_exit(sess, exc)
                 [] sess.helper = "sync" -> sync_session_exit(sess, exc)
                 [] sess.helper = "get_db" -> get_db_exit(sess, exc)
    /\ resp' = Ret("session", <<sess.helper>>, IF IsNone(exc) THEN "ok" ELSE "raised", exc)
    /\ UNCHANGED notSession

NextSession ==
    \/ \E h \in {"sync", "async", "get_db"} : SessionEnter(h)
    \/ SessionAdd
    \/ SessionCommit
    \/ \E e \in {None} \cup { Some(x) : x \in BaseExceptions } : SessionExit(e)

InitSession == InitStore /\ IdleRest

SpecSession == InitSession /\ [][NextSession]_vars

----------------------------------------------------------------------------
(* C3 *)

Count(seq, x) == Cardinality({ i \in DOMAIN seq : seq[i] = x })

\* C3: when a scoped session of either manager has ended, after the caller's
\* block raised an error the session was rolled back once and then closed once
\* and that same error reached the caller; after a normal exit it was closed once
\* and not rolled back.
C3_RollbackCloseOnce ==
    (sess.pc = "done" /\ sess.helper \in {"sync", "async"}
       /\ (IsNone(resp.val) \/ resp.val[1] \in Exceptions)) =>
        /\ sess.raised = resp.val
        /\ Count(sess.calls, "close") = 1
        /\ Count(sess.calls, "rollback") = (IF IsNone(resp.val) THEN 0 ELSE 1)
        /\ sess.calls[Len(sess.calls)] = "close"

----------------------------------------------------------------------------
(* SpecBoot: process startups and operator runs against one database and one *)
(* bootstrap-scripts directory                                              *)

ExtensionsSql == { <<"CREATE EXTENSION IF NOT EXISTS pg_trgm", ";", "\n">> }

SchemasSql ==
    { <<"CREATE SCHEMA IF NOT EXISTS bdns", ";", "\n", "CREATE SCHEMA etl", ";">>,
      <<"CREATE SCHEMA etl", ";">>,
      <<"CREATE SCHEMA IF NOT EXISTS bdns", ";", " ", "CREATE SCHEMA", ";">> }

PartitionFunctionsSql ==
    { <<"\n", "CREATE FUNCTION create_partition", ";", ";", " ">>,
      <<"CREATE FUNCTION f() AS $$ BEGIN RETURN", ";", " ", "END $$", ";">> }

ScriptDirs ==
    { [n \in {scripts[i] : i \in DOMAIN scripts} |->
          CASE n = scripts[1] -> a [] n = scripts[2] -> b [] n = scripts[3] -> c] :
        a \in {None} \cup { Some(t) : t \in ExtensionsSql },
        b \in {None} \cup { Some(t) : t \in SchemasSql },
        c \in {None} \cup { Some(t) : t \in PartitionFunctionsSql } }

InitialCatalogs == { {}, {"bdns"}, {"etl"} }

notBoot == <<users, nextId, now, ticks, tok, cfg, okBefore, lastPw, sess, auxVars>>

\* One invocation, as the history keeps it
Invocation(call, before, r, ret) ==
    [ call |-> call, before |-> before, after |-> r.pg, ret |-> ret,
      executed |-> r.executed, warnings |-> r.warnings ]

\* A process startup calls bootstrap_if_needed()
BootstrapIfNeeded ==
    /\ Len(bootlog) < MaxRuns
    /\ LET r == bootstrap_if_needed(fs, pg)
       IN /\ pg' = r.pg
          /\ bootlog' = Append(bootlog, Invocation("bootstrap_if_needed", pg, r, r.ret))
          /\ resp' = Ret("bootstrap_if_needed", <<>>,
                         IF IsNone(r.error) THEN "ok" ELSE "raised",
                         IF IsNone(r.error) THEN Some(r.ret) ELSE r.error)
    /\ UNCHANGED <<fs, notBoot>>

\* The operator calls run_bootstrap(bootstrap_dir)
RunBootstrap ==
    /\ Len(bootlog) < MaxRuns
    /\ LET r == run_bootstrap(fs, pg)
       IN /\ pg' = r.pg
          /\ bootlog' = Append(bootlog, Invocation("run_bootstrap", pg, r,
                                                   IF IsNone(r.error) THEN "None" ELSE "raised"))
          /\ resp' = Ret("run_bootstrap", <<>>,
                         IF IsNone(r.error) THEN "ok" ELSE "raised", r.error)
    /\ UNCHANGED <<fs, notBoot>>

NextBoot ==
    \/ BootstrapIfNeeded
    \/ RunBootstrap

InitBoot ==
    /\ InitStore
    /\ now = 0
    /\ ticks = 0
    /\ tok = None
    /\ cfg = BaseSettings([v \in {} |-> ""])
    /\ okBefore = FALSE
    /\ sess = SessionIdle
    /\ pg \in InitialCatalogs
    /\ fs \in ScriptDirs
    /\ bootlog = <<>>
    /\ NoAux

SpecBoot == InitBoot /\ [][NextBoot]_vars

----------------------------------------------------------------------------
(* C12, C13, C14 *)

\* A piece of script text without the white space around it
Trim(piece) ==
    LET solid == { i \in DOMAIN piece : piece[i] \notin Whitespace }
    IN IF solid = {} THEN <<>>
       ELSE SubSeq(piece, CHOOSE i \in solid : \A j \in solid : i <= j,
                          CHOOSE i \in solid : \A j \in solid : j <= i)

\* The statements of a script text, read left to right: cur is the piece being
\* read, closed by each ";" and by the end of the text
RECURSIVE Scan(_, _)
Scan(rest, cur) ==
    LET closed == IF Trim(cur) = <<>> THEN <<>> ELSE <<Trim(cur)>>
    IN IF rest = <<>> THEN closed
       ELSE IF Head(rest) = ";" THEN closed \o Scan(Tail(rest), <<>>)
       ELSE Scan(Tail(rest), Append(cur, Head(rest)))

\* The statements of the scripts present in the directory, in script order
Planned(dir) ==
    LET of(i) == IF IsNone(dir[scripts[i]]) THEN <<>> ELSE Scan(dir[scripts[i]][1], <<>>)
    IN of(1) \o of(2) \o of(3)

\* The scripts missing from the directory, in script order
Missing(dir) ==
    LET of(i) == IF IsNone(dir[scripts[i]]) THEN <<scripts[i]>> ELSE <<>>
    IN of(1) \o of(2) \o of(3)

\* The catalog a transaction sees after these statements
RECURSIVE CatalogAfter(_, _)
CatalogAfter(catalog, stmts) ==
    IF stmts = <<>> THEN catalog
    ELSE CatalogAfter(execute(catalog, Head(stmts)).catalog, Tail(stmts))

\* The j-th statement an invocation sent was refused by the database
FailsAt(e, j) ==
    ~IsNone(execute(CatalogAfter(e.before, SubSeq(e.executed, 1, j - 1)), e.executed[j]).error)

OnlyStartups == \A k \in DOMAIN bootlog : bootlog[k].call = "bootstrap_if_needed"

----------------------------------------------------------------------------
(* C15 *)

\* C15: when a use of any session helper (the managers' scoped sessions and
\* get_db) has ended, one session was acquired, it has been closed, what was
\* raised at the yield reached the caller, and after an Exception the session
\* was rolled back before it was closed.
C15_EveryHelperRollsBack ==
    sess.pc = "done" =>
        /\ sess.created = 1
        /\ Count(sess.calls, "close") >= 1
        /\ sess.raised = resp.val
        /\ (~IsNone(resp.val) /\ resp.val[1] \in Exceptions) =>
              \E i, j \in DOMAIN sess.calls :
                  i < j /\ sess.calls[i] = "rollback" /\ sess.calls[j] = "close"

----------------------------------------------------------------------------
(* Tax-identifier interpretation (db/nif_utils.py).  An identifier is None  *)
(* or a text.                                                               *)

FORMAS_JURIDICAS_NIF ==
    [ c \in { "A", "B", "C", "D", "E", "F", "G", "H", "J", "N", "P", "Q", "R", "S", "U", "V", "W" } |->
        CASE c = "A" -> "Sociedad Anónima (SA)"
          [] c = "B" -> "Sociedad de Responsabilidad Limitada (SL)"
          [] c = "C" -> "Sociedad Colectiva"
          [] c = "D" -> "Sociedad Comanditaria"
          [] c = "E" -> "Comunidades de Bienes"
          [] c = "F" -> "Sociedad Cooperativa"
          [] c = "G" -> "Asociaciones"
          [] c = "H" -> "Comunidades de Propietarios en régimen de propiedad horizontal"
          [] c = "J" -> "Sociedades Civiles (con o sin personalidad jurídica)"
          [] c = "N" -> "Entidades no residentes en España"
          [] c = "P" -> "Corporaciones Locales"
          [] c = "Q" -> "Organismos Públicos"
          [] c = "R" -> "Congregaciones e instituciones religiosas"
          [] c = "S" -> "Órganos de la Administración del Estado y Comunidades Autónomas"
          [] c = "U" -> "Uniones Temporales de Empresas (UTE)"
          [] c = "V" -> "Otros tipos no definidos"
          [] c = "W" -> "Establecimientos permanentes de entidades no residentes en España" ]

\* str.isdigit() on one character
isdigit(c) == c \in { "0", "1", "2", "3", "4", "5", "6", "7", "8", "9" }

\* c in s
Contains(s, c) == \E i \in DOMAIN s : s[i] = c

\* "not nif": None or the empty text
Falsy(nif) == IsNone(nif) \/ nif[1] = <<>>

\* interpretar_forma_juridica_desde_nif that does not upper-case the identifier
interpretar_forma_juridica_desde_nif_noUpper(nif) ==
    IF Falsy(nif) THEN "Desconocido"
    ELSE LET nif_clean == strip(nif[1])
         IN IF Contains(nif_clean, "*") THEN "Persona física"
            ELSE IF Len(nif_clean) < 1 THEN "Desconocido"
            ELSE LET primer_char == nif_clean[1]
                 IN IF primer_char \in DOMAIN FORMAS_JURIDICAS_NIF
                    THEN FORMAS_JURIDICAS_NIF[primer_char]
                    ELSE IF isdigit(primer_char) THEN "Persona física"
                    ELSE IF primer_char \in {"X", "Y", "Z"} THEN "Persona física"
                    ELSE "Desconocido"

interpretar_forma_juridica_desde_nif(nif) ==
    IF Falsy(nif) THEN "Desconocido"
    ELSE LET nif_clean == Upper(strip(nif[1]))
         IN IF Contains(nif_clean, "*") THEN "Persona física"
            ELSE IF Len(nif_clean) < 1 THEN "Desconocido"
            ELSE LET primer_char == nif_clean[1]
                 IN IF primer_char \in DOMAIN FORMAS_JURIDICAS_NIF
                    THEN FORMAS_JURIDICAS_NIF[primer_char]
                    ELSE IF isdigit(primer_char) THEN "Persona física"
                    ELSE IF primer_char \in {"X", "Y", "Z"} THEN "Persona física"
                    ELSE "Desconocido"

es_persona_fisica(nif) == interpretar_forma_juridica_desde_nif(nif) = "Persona física"

es_persona_juridica(nif) ==
    interpretar_forma_juridica_desde_nif(nif) \notin {"Persona física", "Desconocido"}

\* obtener_tipo_entidad_desde_nif that takes a natural-person prefix for unknown
obtener_tipo_entidad_desde_nif_noFisica(nif) ==
    IF Falsy(nif) THEN "Desconocido"
    ELSE LET nif_clean == Upper(strip(nif[1]))
         IN IF Len(nif_clean) < 1 \/ Contains(nif_clean, "*") THEN "Desconocido"
            ELSE LET primer_char == nif_clean[1]
                 IN IF primer_char \in {"P", "Q", "S"} THEN "Pública"
                    ELSE IF primer_char \in DOMAIN FORMAS_JURIDICAS_NIF THEN "Privada"
                    ELSE "Desconocido"

obtener_tipo_entidad_desde_nif(nif) ==
    IF Falsy(nif) THEN "Desconocido"
    ELSE LET nif_clean == Upper(strip(nif[1]))
         IN IF Len(nif_clean) < 1 \/ Contains(nif_clean, "*") THEN "Desconocido"
            ELSE LET primer_char == nif_clean[1]
                     entidades_publicas == {"P", "Q", "S"}
                 IN IF primer_char \in entidades_publicas THEN "Pública"
                    ELSE IF primer_char \in DOMAIN FORMAS_JURIDICAS_NIF THEN "Privada"
                    ELSE IF isdigit(primer_char) \/ primer_char \in {"X", "Y", "Z"} THEN "Privada"
                    ELSE "Desconocido"

\* obtener_codigo_natural_desde_nif that looks at the first character only
obtener_codigo_natural_desde_nif_firstCharOnly(nif) ==
    IF Falsy(nif) THEN "?"
    ELSE LET nif_clean == Upper(strip(nif[1]))
         IN IF Len(nif_clean) < 1 THEN "?"
            ELSE LET primer_char == nif_clean[1]
                 IN IF primer_char = "*" THEN "*"
                    ELSE IF primer_char \in DOMAIN FORMAS_JURIDICAS_NIF THEN primer_char
                    ELSE IF isdigit(primer_char) THEN "*"
                    ELSE IF primer_char \in {"X", "Y", "Z"} THEN "*"
                    ELSE "?"

obtener_codigo_natural_desde_nif(nif) ==
    IF Falsy(nif) THEN "?"
    ELSE LET nif_clean == Upper(strip(nif[1]))
         IN IF Contains(nif_clean, "*") THEN "*"
            ELSE IF Len(nif_clean) < 1 THEN "?"
            ELSE LET primer_char == nif_clean[1]
                 IN IF primer_char \in DOMAIN FORMAS_JURIDICAS_NIF THEN primer_char
                    ELSE IF isdigit(primer_char) THEN "*"
                    ELSE IF primer_char \in {"X", "Y", "Z"} THEN "*"
                    ELSE "?"

----------------------------------------------------------------------------
(* SpecNif: the tax-identifier functions applied to identifiers of every    *)
(* shape: absent, empty, blank, padded, lower case, redacted                *)

FirstChars == DOMAIN FORMAS_JURIDICAS_NIF \cup { "I", "K", "X", "Y", "Z", "0", "7", "-" }

NifInputs ==
    { None, Some(<<>>), Some(<<" ">>), Some(<<"\n", " ">>), Some(<<" ", "*">>) }
    \cup { Some(<<c, "1">>) : c \in FirstChars }
    \cup { Some(<<LowerChar(c), "1", "z">>) : c \in FirstChars }
    \cup { Some(<<" ", c, "1", "\n">>) : c \in FirstChars }
    \cup { Some(<<c, "*", "*">>) : c \in FirstChars }
    \cup { Some(<<"*", "*", c>>) : c \in FirstChars }

notResp == <<users, nextId, now, ticks, tok, cfg, okBefore, lastPw, sess, bootVars, auxVars>>

InterpretarFormaJuridica(nif) ==
    /\ resp' = Ret("interpretar_forma_juridica_desde_nif", <<nif>>, "ok",
                   Some(interpretar_forma_juridica_desde_nif(nif)))
    /\ UNCHANGED notResp

EsPersonaFisica(nif) ==
    /\ resp' = Ret("es_persona_fisica", <<nif>>, "ok", Some(es_persona_fisica(nif)))
    /\ UNCHANGED notResp

EsPersonaJuridica(nif) ==
    /\ resp' = Ret("es_persona_juridica", <<nif>>, "ok", Some(es_persona_juridica(nif)))
    /\ UNCHANGED notResp

ObtenerTipoEntidad(nif) ==
    /\ resp' = Ret("obtener_tipo_entidad_desde_nif", <<nif>>, "ok",
                   Some(obtener_tipo_entidad_desde_nif(nif)))
    /\ UNCHANGED notResp

ObtenerCodigoNatural(nif) ==
    /\ resp' = Ret("obtener_codigo_natural_desde_nif", <<nif>>, "ok",
                   Some(obtener_codigo_natural_desde_nif(nif)))
    /\ UNCHANGED notResp

NextNif ==
    \/ \E nif \in NifInputs : InterpretarFormaJuridica(nif)
    \/ \E nif \in NifInputs : EsPersonaFisica(nif)
    \/ \E nif \in NifInputs : EsPersonaJuridica(nif)
    \/ \E nif \in NifInputs : ObtenerTipoEntidad(nif)
    \/ \E nif \in NifInputs : ObtenerCodigoNatural(nif)

InitNif == InitStore /\ IdleRest

SpecNif == InitNif /\ [][NextNif]_vars

----------------------------------------------------------------------------
(* C16, C17, C18 *)

\* The legal forms of the lookup table
LegalForms == { FORMAS_JURIDICAS_NIF[c] : c \in DOMAIN FORMAS_JURIDICAS_NIF }

\* The first character of an identifier that is not white space, upper-cased;
\* None when there is none
FirstSolid(nif) ==
    IF IsNone(nif) \/ \A i \in DOMAIN nif[1] : nif[1][i] \in Whitespace THEN None
    ELSE LET k == CHOOSE i \in DOMAIN nif[1] :
                      /\ nif[1][i] \notin Whitespace
                      /\ \A j \in 1..(i - 1) : nif[1][j] \in Whitespace
         IN Some(UpperChar(nif[1][k]))

Redacted(nif) == ~IsNone(nif) /\ Contains(nif[1], "*")

\* C16: for every identifier, es_persona_fisica is true exactly when the natural
\* code is "*"; the natural code is the letter of the legal form exactly when the
\* classification is a legal form of the table, and "?" exactly when the
\* classification is "Desconocido".
C16_CodeMatchesClassification ==
    LET nif == resp.args[1]
        forma == interpretar_forma_juridica_desde_nif(nif)
    IN /\ resp.op = "es_persona_fisica" =>
             (resp.val[1] = (obtener_codigo_natural_desde_nif(nif) = "*"))
       /\ resp.op = "obtener_codigo_natural_desde_nif" =>
             /\ (resp.val[1] = "*") = es_persona_fisica(nif)
             /\ (resp.val[1] = "?") = (forma = "Desconocido")
             /\ (resp.val[1] \in DOMAIN FORMAS_JURIDICAS_NIF) = (forma \in LegalForms)
             /\ forma \in LegalForms =>
                   /\ FORMAS_JURIDICAS_NIF[resp.val[1]] = forma
                   /\ Some(resp.val[1]) = FirstSolid(nif)

\* C16 witness: the natural code of a redacted identifier that starts with the
\* letter of a legal form is "*"
C16_Witness ==
    /\ resp.op = "obtener_codigo_natural_desde_nif"
    /\ Redacted(resp.args[1])
    /\ FirstSolid(resp.args[1]) = Some("A")
    /\ resp.val = Some("*")

\* The identifier written another way: lower case, upper case, padded
Variants(nif) ==
    IF IsNone(nif) THEN {nif}
    ELSE { Some(Lower(nif[1])), Some(Upper(nif[1])), Some(<<" ">> \o nif[1] \o <<"\n">>) }

FixedForms == LegalForms \cup { "Persona física", "Desconocido" }

\* C17 as stated: the classification is one of exactly eighteen fixed strings
\* and is the same for the identifier in another letter case or padded.
C17_EighteenForms ==
    resp.op = "interpretar_forma_juridica_desde_nif" =>
        /\ resp.val[1] \in FixedForms
        /\ Cardinality(FixedForms) = 18
        /\ \A v \in Variants(resp.args[1]) : interpretar_forma_juridica_desde_nif(v) = resp.val[1]

\* C17 as amended: the classification is one of exactly nineteen fixed strings
\* (seventeen legal forms, "Persona física", "Desconocido"), each of them the
\* classification of some identifier, and is the same for the identifier in
\* another letter case or padded.
C17_NineteenForms ==
    resp.op = "interpretar_forma_juridica_desde_nif" =>
        /\ resp.val[1] \in FixedForms
        /\ Cardinality(FixedForms) = 19
        /\ { interpretar_forma_juridica_desde_nif(n) : n \in NifInputs } = FixedForms
        /\ \A v \in Variants(resp.args[1]) : interpretar_forma_juridica_desde_nif(v) = resp.val[1]

\* C17 witness: a padded or lower-case identifier starting with w classified by
\* the last entry of the table
C17_Witness ==
    /\ resp.op = "interpretar_forma_juridica_desde_nif"
    /\ resp.args[1] = Some(<<"w", "1", "z">>)
    /\ resp.val = Some(FORMAS_JURIDICAS_NIF["W"])

\* C18 as stated: the entity type is "Pública" for a first character P, Q or S,
\* "Privada" for a natural person, "Pública" or "Privada" for a legal person,
\* and "Desconocido" exactly when the classification is "Desconocido".
C18_EntityType ==
    resp.op = "obtener_tipo_entidad_desde_nif" =>
        LET nif == resp.args[1]
        IN /\ FirstSolid(nif) \in { Some("P"), Some("Q"), Some("S") } => resp.val[1] = "Pública"
           /\ es_persona_fisica(nif) => resp.val[1] = "Privada"
           /\ es_persona_juridica(nif) => resp.val[1] \in { "Pública", "Privada" }
           /\ (resp.val[1] = "Desconocido") = (interpretar_forma_juridica_desde_nif(nif) = "Desconocido")

\* C18 as amended: an identifier containing an asterisk has entity type
\* "Desconocido"; any other has "Pública" for a first character P, Q or S,
\* "Privada" for another letter of the table, a digit, X, Y or Z, and
\* "Desconocido" otherwise.  So a natural person is "Privada" unless redacted, a
\* legal person is "Pública" or "Privada", and the type is "Desconocido" exactly
\* when the classification is "Desconocido" or the identifier is redacted.
C18_EntityTypeUnlessRedacted ==
    resp.op = "obtener_tipo_entidad_desde_nif" =>
        LET nif == resp.args[1]
            first == FirstSolid(nif)
        IN /\ resp.val[1] =
                 ( IF Redacted(nif) \/ IsNone(first) THEN "Desconocido"
                   ELSE IF first[1] \in { "P", "Q", "S" } THEN "Pública"
                   ELSE IF first[1] \in DOMAIN FORMAS_JURIDICAS_NIF \/ isdigit(first[1])
                           \/ first[1] \in { "X", "Y", "Z" } THEN "Privada"
                   ELSE "Desconocido" )
           /\ es_persona_fisica(nif) =>
                 resp.val[1] = (IF Redacted(nif) THEN "Desconocido" ELSE "Privada")
           /\ es_persona_juridica(nif) => resp.val[1] \in { "Pública", "Privada" }
           /\ (resp.val[1] = "Desconocido") =
                 (interpretar_forma_juridica_desde_nif(nif) = "Desconocido" \/ Redacted(nif))

\* C18 witness: a natural-person identifier that is not redacted has type "Privada"
C18_Witness ==
    /\ resp.op = "obtener_tipo_entidad_desde_nif"
    /\ ~Redacted(resp.args[1])
    /\ FirstSolid(resp.args[1]) = Some("X")
    /\ es_persona_fisica(resp.args[1])
    /\ resp.val = Some("Privada")

----------------------------------------------------------------------------
(* Text normalization (db/utils.py) *)

\* unicodedata.normalize("NFKD", c).encode("ASCII", "ignore").decode("ASCII") on
\* one character: an ASCII character stays, an accented letter keeps its base
\* letter, a character without ASCII decomposition disappears
AsciiOf(c) ==
    CASE c = "é" -> <<"e">>
      [] c = "ø" -> <<>>
      [] OTHER -> <<c>>

\* The same on a text
RECURSIVE ToAscii(_)
ToAscii(texto) ==
    IF texto = <<>> THEN <<>> ELSE AsciiOf(Head(texto)) \o ToAscii(Tail(texto))

\* The text after its leading white space
RECURSIVE SkipSpace(_)
SkipSpace(texto) ==
    IF texto # <<>> /\ Head(texto) \in Whitespace THEN SkipSpace(Tail(texto)) ELSE texto

\* re.sub(r"\s+", " ", texto)
RECURSIVE CollapseSpace(_)
CollapseSpace(texto) ==
    IF texto = <<>> THEN <<>>
    ELSE IF Head(texto) \in Whitespace THEN <<" ">> \o CollapseSpace(SkipSpace(texto))
    ELSE <<Head(texto)>> \o CollapseSpace(Tail(texto))

Punctuation == { ".", ",", ":", ";" }

\* re.sub(r"\s+([.,:;])", r"\1", texto)
RECURSIVE DropSpaceBeforePunctuation(_)
DropSpaceBeforePunctuation(texto) ==
    IF texto = <<>> THEN <<>>
    ELSE IF Head(texto) \in Whitespace /\ SkipSpace(texto) # <<>>
            /\ Head(SkipSpace(texto)) \in Punctuation
    THEN DropSpaceBeforePunctuation(SkipSpace(texto))
    ELSE <<Head(texto)>> \o DropSpaceBeforePunctuation(Tail(texto))

\* normalizar(texto); texto is None or a text, and so is the result
normalizar(texto) ==
    IF Falsy(texto) THEN None
    ELSE Some(DropSpaceBeforePunctuation(CollapseSpace(strip(Upper(ToAscii(texto[1]))))))

----------------------------------------------------------------------------
(* SpecNorm: normalizar applied to texts of accented and plain letters,     *)
(* white space, punctuation and characters without ASCII form               *)

TextAlphabet == { "a", "é", " ", "\n", ".", "ø" }

TextInputs ==
    {None} \cup { Some(t) : t \in UNION { [1..k -> TextAlphabet] : k \in 0..MaxTextLen } }

Normalizar(texto) ==
    /\ resp' = Ret("normalizar", <<texto>>, "ok", normalizar(texto))
    /\ UNCHANGED notResp

NextNorm == \E texto \in TextInputs : Normalizar(texto)

InitNorm == InitStore /\ IdleRest

SpecNorm == InitNorm /\ [][NextNorm]_vars

----------------------------------------------------------------------------
(* C19 *)

\* C19: normalizing the result of normalizar gives that result again, and the
\* result for an absent or empty text is absent.
C19_Idempotent ==
    resp.op = "normalizar" =>
        /\ normalizar(resp.val) = resp.val
        /\ Falsy(resp.args[1]) => resp.val = None

----------------------------------------------------------------------------
(* Equivalent subsidy amount (business/equivalencia.py).  Amounts are whole *)
(* euros; a result is counted in ten-thousandths of a euro, so that the     *)
(* factors 0.15, 0.25 and (percentage / 100) x 0.05 are exact.               *)

Unit == 10000

\* class TipoInstrumento
TipoInstrumento ==
    [ SUBVENCION_DIRECTA |-> "subvencion_directa", PRESTAMO |-> "prestamo",
      GARANTIA |-> "garantia", CAPITAL |-> "capital",
      VENTAJA_FISCAL |-> "ventaja_fiscal", OTRO |-> "otro" ]

\* metadata.get(key, default)
DictGet(metadata, key, default) ==
    IF key \in DOMAIN metadata THEN metadata[key] ELSE default

\* A returned amount, with whether logger.warning was called on the way
Equivalente(value, warned) == [value |-> value, warned |-> warned]

\* _calcular_equivalente_prestamo_placeholder with the term compared by <=
_calcular_equivalente_prestamo_placeholder_inclusive(importe_nominal, fecha_concesion, metadata) ==
    LET plazo_meses == DictGet(metadata, "plazo_meses", 60)
    IN IF plazo_meses <= 60
       THEN importe_nominal * ((15 * Unit) \div 100)
       ELSE importe_nominal * ((25 * Unit) \div 100)

_calcular_equivalente_prestamo_placeholder(importe_nominal, fecha_concesion, metadata) ==
    LET plazo_meses == DictGet(metadata, "plazo_meses", 60)
    IN IF plazo_meses < 60
       THEN importe_nominal * ((15 * Unit) \div 100)
       ELSE importe_nominal * ((25 * Unit) \div 100)

\* nominal x (percentage / 100.0) x 0.05
_calcular_equivalente_garantia_placeholder(importe_nominal, fecha_concesion, metadata) ==
    LET porcentaje_garantia == DictGet(metadata, "porcentaje_garantia", 80)
    IN importe_nominal * porcentaje_garantia * ((5 * Unit) \div (100 * 100))

\* calcular_importe_equivalente; importe_nominal, regimen_ayuda, instrumento and
\* metadata are None or a value
calcular_importe_equivalente(importe_nominal, fecha_concesion, regimen_ayuda, instrumento, metadata) ==
    IF IsNone(importe_nominal) \/ importe_nominal[1] = 0 THEN Equivalente(0, FALSE)
    ELSE LET md == IF IsNone(metadata) \/ DOMAIN metadata[1] = {} THEN <<>> ELSE metadata[1]
             nominal == importe_nominal[1]
         IN IF IsNone(instrumento) \/ instrumento[1] = TipoInstrumento.SUBVENCION_DIRECTA
            THEN Equivalente(nominal * Unit, FALSE)
            ELSE IF instrumento[1] = TipoInstrumento.PRESTAMO
            THEN Equivalente(_calcular_equivalente_prestamo_placeholder(nominal, fecha_concesion, md), FALSE)
            ELSE IF instrumento[1] = TipoInstrumento.GARANTIA
            THEN Equivalente(_calcular_equivalente_garantia_placeholder(nominal, fecha_concesion, md), FALSE)
            ELSE IF instrumento[1] = TipoInstrumento.CAPITAL
            THEN Equivalente(nominal * Unit, FALSE)
            ELSE IF instrumento[1] = TipoInstrumento.VENTAJA_FISCAL
            THEN Equivalente(nominal * Unit, FALSE)
            ELSE Equivalente(nominal * Unit, TRUE)

\* Python's max(a, b)
max(a, b) == IF b > a THEN b ELSE a

\* validar_limite_de_minimis with the ceiling compared by <
validar_limite_de_minimis_strict(beneficiario_id, importe_equivalente_nuevo, fecha_concesion, periodo_ventana_anos) ==
    LET acumulado_previo == 0
        acumulado_total == acumulado_previo + importe_equivalente_nuevo
        limite_aplicable == 300000
    IN [ valido |-> acumulado_total < limite_aplicable,
         acumulado_previo |-> acumulado_previo,
         acumulado_total |-> acumulado_total,
         limite_aplicable |-> limite_aplicable,
         margen_restante |-> max(0, limite_aplicable - acumulado_total) ]

\* validar_limite_de_minimis; amounts in whole euros
validar_limite_de_minimis(beneficiario_id, importe_equivalente_nuevo, fecha_concesion, periodo_ventana_anos) ==
    LET acumulado_previo == 0
        acumulado_total == acumulado_previo + importe_equivalente_nuevo
        limite_aplicable == 300000
    IN [ valido |-> acumulado_total <= limite_aplicable,
         acumulado_previo |-> acumulado_previo,
         acumulado_total |-> acumulado_total,
         limite_aplicable |-> limite_aplicable,
         margen_restante |-> max(0, limite_aplicable - acumulado_total) ]

----------------------------------------------------------------------------
(* SpecEquiv: calcular_importe_equivalente over amounts, instruments and    *)
(* metadata, validar_limite_de_minimis over amounts, beneficiaries, dates   *)
(* and windows                                                              *)

ImporteInputs == { None, Some(0), Some(100), Some(0 - 50), Some(1000) }

InstrumentoInputs ==
    { None, Some("subvencion_directa"), Some("prestamo"), Some("garantia"), Some("capital"),
      Some("ventaja_fiscal"), Some("otro"), Some("PRESTAMO"), Some("") }

MetadataInputs ==
    { None, Some(<<>>),
      Some([plazo_meses |-> 0]), Some([plazo_meses |-> 59]), Some([plazo_meses |-> 60]),
      Some([plazo_meses |-> 61]),
      Some([porcentaje_garantia |-> 0]), Some([porcentaje_garantia |-> 50]),
      Some([porcentaje_garantia |-> 100]),
      Some([plazo_meses |-> 59, porcentaje_garantia |-> 50]) }

RegimenInputs == { None, Some("minimis") }

FechaInputs == { "2023-01-01" }

CalcularImporteEquivalente(importe_nominal, fecha_concesion, regimen_ayuda, instrumento, metadata) ==
    /\ resp' = Ret("calcular_importe_equivalente",
                   <<importe_nominal, fecha_concesion, regimen_ayuda, instrumento, metadata>>, "ok",
                   Some(calcular_importe_equivalente(importe_nominal, fecha_concesion,
                                                     regimen_ayuda, instrumento, metadata)))
    /\ UNCHANGED notResp

NuevoInputs == { 0, 1, 299999, 300000, 300001, 600000, 0 - 1, 0 - 300000 }

BeneficiarioInputs == { "b1", "b2" }

VentanaFechaInputs == { "2023-01-01", "2026-12-31" }

VentanaInputs == { 0, 1, 3, 5 }

ValidarLimiteDeMinimis(beneficiario_id, importe_equivalente_nuevo, fecha_concesion, periodo_ventana_anos) ==
    /\ resp' = Ret("validar_limite_de_minimis",
                   <<beneficiario_id, importe_equivalente_nuevo, fecha_concesion, periodo_ventana_anos>>,
                   "ok",
                   Some(validar_limite_de_minimis(beneficiario_id, importe_equivalente_nuevo,
                                                  fecha_concesion, periodo_ventana_anos)))
    /\ UNCHANGED notResp

NextEquiv ==
    \/ \E n \in ImporteInputs, f \in FechaInputs, r \in RegimenInputs,
          i \in InstrumentoInputs, m \in MetadataInputs :
           CalcularImporteEquivalente(n, f, r, i, m)
    \/ \E b \in BeneficiarioInputs, a \in NuevoInputs, f \in VentanaFechaInputs,
          w \in VentanaInputs :
           ValidarLimiteDeMinimis(b, a, f, w)

InitEquiv == InitStore /\ IdleRest

SpecEquiv == InitEquiv /\ [][NextEquiv]_vars

----------------------------------------------------------------------------
(* C20 *)

\* The value the metadata gives for a key, or the default when there is no
\* metadata or no such key
Given(metadata, key, default) ==
    IF ~IsNone(metadata) /\ key \in DOMAIN metadata[1] THEN metadata[1][key] ELSE default

----------------------------------------------------------------------------
(* C21 *)

\* C21: for every new amount a, whatever the beneficiary, date and window,
\* validar_limite_de_minimis reports a prior total of 0, a new total of a, a
\* ceiling of 300000, valido exactly when a <= 300000, and a headroom of
\* 300000 - a when that is positive and 0 otherwise, never negative.
C21_DeMinimisCeiling ==
    resp.op = "validar_limite_de_minimis" =>
        LET a == resp.args[2]
            out == resp.val[1]
        IN /\ out.acumulado_previo = 0
           /\ out.acumulado_total = a
           /\ out.limite_aplicable = 300000
           /\ out.valido <=> a <= 300000
           /\ out.margen_restante = IF a < 300000 THEN 300000 - a ELSE 0
           /\ out.margen_restante >= 0

\* C21 witness: an aid of exactly 300000 is valid and leaves no headroom
C21_Witness ==
    /\ resp.op = "validar_limite_de_minimis"
    /\ resp.args[2] = 300000
    /\ resp.val[1].valido
    /\ resp.val[1].margen_restante = 0

----------------------------------------------------------------------------
(* Concesion's derived properties (db/models.py).  A description is a text, *)
(* a sequence of characters, as for normalizar.                             *)

\* The literals the properties compare with
AYUDA_ESTADO_LITERAL == << "a", "y", "u", "d", "a", "_", "e", "s", "t", "a", "d", "o" >>

MINIMIS_LITERAL == << "m", "i", "n", "i", "m", "i", "s" >>

\* A row of the regimen_ayuda catalog
RegimenAyuda(descripcion, descripcion_norm) ==
    [descripcion |-> descripcion, descripcion_norm |-> descripcion_norm]

\* A grant: its two amounts and its linked regime, each None or a value
Concesion(importe_equivalente, importe_nominal, regimen_ayuda) ==
    [ importe_equivalente |-> importe_equivalente, importe_nominal |-> importe_nominal,
      regimen_ayuda |-> regimen_ayuda ]

\* Concesion.regimen_tipo_norm
regimen_tipo_norm(self) ==
    IF ~IsNone(self.regimen_ayuda) THEN Some(self.regimen_ayuda[1].descripcion_norm) ELSE None

\* Concesion.es_ayuda_estado
es_ayuda_estado(self) == regimen_tipo_norm(self) = Some(AYUDA_ESTADO_LITERAL)

\* Concesion.es_minimis
es_minimis(self) == regimen_tipo_norm(self) = Some(MINIMIS_LITERAL)

\* Python's `x or 0` on an optional integer
OrZero(x) == IF IsNone(x) \/ x[1] = 0 THEN 0 ELSE x[1]

\* Concesion.importe
importe(self) ==
    IF es_ayuda_estado(self) THEN OrZero(self.importe_equivalente)
    ELSE OrZero(self.importe_nominal)

----------------------------------------------------------------------------
(* SpecConcesion: the derived properties read on grants of every amount and *)
(* regime; a catalog row's normalized column holds either what normalizar   *)
(* gives for its description or the description as it is                    *)

DescripcionInputs ==
    { AYUDA_ESTADO_LITERAL, Upper(AYUDA_ESTADO_LITERAL), MINIMIS_LITERAL,
      << "o", "r", "d", "i", "n", "a", "r", "i", "a" >> }

RegimenAyudaInputs ==
    { RegimenAyuda(d, n) : d \in DescripcionInputs, n \in DescripcionInputs }

AmountInputs == { None, Some(0), Some(15), Some(100) }

ConcesionInputs ==
    { Concesion(e, n, r) : e \in AmountInputs, n \in AmountInputs,
                           r \in {None} \cup { Some(x) : x \in RegimenAyudaInputs } }

ReadConcesion(self) ==
    /\ resp' = Ret("concesion", <<self>>, "ok",
                   Some([ regimen_tipo_norm |-> regimen_tipo_norm(self),
                          es_ayuda_estado |-> es_ayuda_estado(self),
                          es_minimis |-> es_minimis(self),
                          importe |-> importe(self) ]))
    /\ UNCHANGED notResp

NextConcesion == \E self \in ConcesionInputs : ReadConcesion(self)

InitConcesion == InitStore /\ IdleRest

SpecConcesion == InitConcesion /\ [][NextConcesion]_vars

----------------------------------------------------------------------------
(* C22 *)

\* The catalog row was filled by the library's normalization
Normalized(regimen) == Some(regimen.descripcion_norm) = normalizar(Some(regimen.descripcion))

\* The grant is linked to the state-aid regime: the catalog row described as
\* "ayuda_estado", in either case
StateAid(self) ==
    /\ ~IsNone(self.regimen_ayuda)
    /\ Lower(self.regimen_ayuda[1].descripcion) = AYUDA_ESTADO_LITERAL

\* C22: for every grant whose regime's normalized description is the one
\* normalizar produces (and for every unclassified grant), importe is
\* importe_equivalente (0 if unset) when the regime is the state-aid regime and
\* importe_nominal (0 if unset) otherwise; es_ayuda_estado and es_minimis are
\* never both true.
C22_ImporteByRegime ==
    resp.op = "concesion" =>
        LET self == resp.args[1]
            out == resp.val[1]
        IN /\ ~(out.es_ayuda_estado /\ out.es_minimis)
           /\ (IsNone(self.regimen_ayuda) \/ Normalized(self.regimen_ayuda[1])) =>
                  out.importe = IF StateAid(self) THEN OrZero(self.importe_equivalente)
                                ELSE OrZero(self.importe_nominal)

----------------------------------------------------------------------------
(* EtlJob (db/etl_models.py): the etl_job table under its unique constraint *)

\* UniqueConstraint("entity", "year", "mes", "tipo", "stage", name="uq_etl_job")
uq_etl_job == << "entity", "year", "mes", "tipo", "stage" >>

\* An EtlJob row as inserted.  A column holds NULL (None) or a value: entity,
\* year and stage are given, mes and tipo are nullable and given as None or a
\* value, and the other columns get their defaults
EtlJob(entity, year, mes, tipo, stage) ==
    [ entity |-> Some(entity), year |-> Some(year), mes |-> mes, tipo |-> tipo,
      stage |-> Some(stage), status |-> Some("pending"), retries |-> Some(0) ]

\* Two rows collide under a unique constraint when they agree on each of its
\* columns with a value that is not NULL: a NULL is distinct from every value,
\* NULL included
Collide(columns, a, b) ==
    \A i \in DOMAIN columns : a[columns[i]] = b[columns[i]] /\ a[columns[i]] # None

\* INSERT of one row: IntegrityError when it collides with a stored row
insert_etl_job(table, row) ==
    IF \E i \in DOMAIN table : Collide(uq_etl_job, table[i], row)
    THEN [status |-> "IntegrityError", table |-> table]
    ELSE [status |-> "ok", table |-> Append(table, row)]

----------------------------------------------------------------------------
(* SpecEtl: any sequence of EtlJob insert attempts                          *)

EntityInputs == { "concesiones" }

YearInputs == { 2023, 2024 }

MesInputs == { None, Some(1) }

TipoInputs == { None, Some("A") }

StageInputs == { "extract", "load" }

notEtl == <<users, nextId, now, ticks, tok, cfg, okBefore, lastPw, sess, bootVars, loggers, cache>>

InsertEtlJob(entity, year, mes, tipo, stage) ==
    /\ Len(etl_job) < MaxJobs
    /\ LET r == insert_etl_job(etl_job, EtlJob(entity, year, mes, tipo, stage))
       IN /\ etl_job' = r.table
          /\ resp' = Ret("insert_etl_job", <<entity, year, mes, tipo, stage>>, r.status, None)
    /\ UNCHANGED notEtl

NextEtl ==
    \E entity \in EntityInputs, year \in YearInputs, mes \in MesInputs, tipo \in TipoInputs,
       stage \in StageInputs :
        InsertEtlJob(entity, year, mes, tipo, stage)

InitEtl == InitStore /\ IdleRest

SpecEtl == InitEtl /\ [][NextEtl]_vars

----------------------------------------------------------------------------
(* C23 *)

\* The five-part key of a row
FiveKey(row) == << row.entity, row.year, row.mes, row.tipo, row.stage >>

\* C23: no two EtlJob rows share the same five-part key, absent month or
\* period-type code included.
C23_NoDuplicateKey ==
    \A i, j \in DOMAIN etl_job : FiveKey(etl_job[i]) = FiveKey(etl_job[j]) => i = j

----------------------------------------------------------------------------
(* Database URL (db/manager.py, config/base.py).  A URL is a sequence of    *)
(* pieces: each of the three scheme prefixes is one piece, and no other     *)
(* piece contains a scheme prefix, so that str.replace on the text is the   *)
(* replacement of pieces.  The empty sequence is the empty string, which    *)
(* Python's truth test treats as None.                                      *)

PLAIN == "postgresql://"

ASYNCPG == "postgresql+asyncpg://"

PSYCOPG2 == "postgresql+psycopg2://"

\* str.replace(old, new)
replace(url, old, new) == [i \in DOMAIN url |-> IF url[i] = old THEN new ELSE url[i]]

\* os.getenv(name, default)
getenv(env, name, default) == IF name \in DOMAIN env THEN env[name] ELSE default

\* The two "Normalizar" replacements followed by the driver replacement
with_driver(url, async_mode) ==
    LET stripped == replace(replace(url, ASYNCPG, PLAIN), PSYCOPG2, PLAIN)
    IN IF async_mode THEN replace(stripped, PLAIN, ASYNCPG)
       ELSE replace(stripped, PLAIN, PSYCOPG2)

\* DatabaseConfig.get_database_url(async_mode), reading the environment env;
\* the DB_*_LOCAL variables keep their defaults
DatabaseConfig_get_database_url(env, async_mode) ==
    LET url == getenv(env, "DATABASE_URL_ASYNC", <<>>)
        database_url == getenv(env, "DATABASE_URL", <<>>)
    IN IF async_mode /\ url # <<>> THEN url
       ELSE IF database_url = <<>>
       THEN with_driver(<<PLAIN, "postgres:postgres@localhost:5432/bdns">>, async_mode)
       ELSE with_driver(database_url, async_mode)

\* BaseSettings.get_database_url(async_mode) on a settings object whose
\* DATABASE_URL field is DATABASE_URL
BaseSettings_get_database_url(DATABASE_URL, async_mode) == with_driver(DATABASE_URL, async_mode)

----------------------------------------------------------------------------
(* SpecUrl: both get_database_url over environments that set neither, one   *)
(* or both URL variables, with each driver qualifier                        *)

RestInputs == { "u:p@h:5432/bdns", "bdns_user:password@localhost:5432/bdns" }

UrlInputs == { <<scheme, rest>> : scheme \in { PLAIN, ASYNCPG, PSYCOPG2 }, rest \in RestInputs }

\* A variable is unset, empty, or holds a URL
UrlEnvInputs ==
    UNION { [names -> UrlInputs \cup {<<>>}] : names \in SUBSET { "DATABASE_URL", "DATABASE_URL_ASYNC" } }

DatabaseConfigGetDatabaseUrl(env, async_mode) ==
    /\ resp' = Ret("DatabaseConfig.get_database_url", <<env, async_mode>>, "ok",
                   Some(DatabaseConfig_get_database_url(env, async_mode)))
    /\ UNCHANGED notResp

BaseSettingsGetDatabaseUrl(DATABASE_URL, async_mode) ==
    /\ resp' = Ret("BaseSettings.get_database_url", <<DATABASE_URL, async_mode>>, "ok",
                   Some(BaseSettings_get_database_url(DATABASE_URL, async_mode)))
    /\ UNCHANGED notResp

NextUrl ==
    \/ \E env \in UrlEnvInputs, async_mode \in BOOLEAN : DatabaseConfigGetDatabaseUrl(env, async_mode)
    \/ \E url \in UrlInputs, async_mode \in BOOLEAN : BaseSettingsGetDatabaseUrl(url, async_mode)

InitUrl == InitStore /\ IdleRest

SpecUrl == InitUrl /\ [][NextUrl]_vars

----------------------------------------------------------------------------
(* C24 *)

\* The scheme the requested mode calls for
SchemeFor(async_mode) == IF async_mode THEN ASYNCPG ELSE PSYCOPG2

\* The URL the environment supplies to DatabaseConfig for the requested mode:
\* DATABASE_URL_ASYNC when asynchronous and set, else DATABASE_URL; <<>> if none
Supplied(env, async_mode) ==
    IF async_mode /\ getenv(env, "DATABASE_URL_ASYNC", <<>>) # <<>>
    THEN env["DATABASE_URL_ASYNC"]
    ELSE getenv(env, "DATABASE_URL", <<>>)

\* out is url with only its scheme changed to the one of the mode
SchemeOnly(url, async_mode, out) ==
    /\ Len(out) = Len(url)
    /\ out[1] = SchemeFor(async_mode)
    /\ Tail(out) = Tail(url)

\* C24: for every configured URL, through DATABASE_URL or DATABASE_URL_ASYNC,
\* get_database_url(async_mode) returns that URL with only the scheme changed to
\* postgresql+asyncpg:// when asynchronous and postgresql+psycopg2:// when not,
\* and normalizing its output again gives the same URL.
C24_SchemeOfRequestedMode ==
    /\ resp.op = "DatabaseConfig.get_database_url" =>
           LET env == resp.args[1]
               async_mode == resp.args[2]
               out == resp.val[1]
           IN Supplied(env, async_mode) # <<>> =>
                  /\ SchemeOnly(Supplied(env, async_mode), async_mode, out)
                  /\ DatabaseConfig_get_database_url([DATABASE_URL |-> out], async_mode) = out
                  /\ DatabaseConfig_get_database_url([DATABASE_URL_ASYNC |-> out], async_mode) = out
    /\ resp.op = "BaseSettings.get_database_url" =>
           LET async_mode == resp.args[2]
               out == resp.val[1]
           IN /\ SchemeOnly(resp.args[1], async_mode, out)
              /\ BaseSettings_get_database_url(out, async_mode) = out

----------------------------------------------------------------------------
(* Connection-pool configuration (db/manager.py, config/base.py).  The text *)
(* of an environment variable is <<n>> when it is the decimal numeral of n  *)
(* and <<>> when it is not a numeral.                                       *)

\* A call that returned val / a call that raised error
Returned(val) == [status |-> "ok", val |-> val]

Raised(error) == [status |-> error, val |-> None]

\* DatabaseConfig.get_pool_config(): int() raises ValueError on a text that is
\* not a numeral
get_pool_config(env) ==
    LET pool_size == getenv(env, "POOL_SIZE", <<20>>)
        max_overflow == getenv(env, "POOL_MAX_OVERFLOW", <<10>>)
        pool_timeout == getenv(env, "POOL_TIMEOUT", <<30>>)
    IN IF pool_size = <<>> \/ max_overflow = <<>> \/ pool_timeout = <<>>
       THEN Raised("ValueError")
       ELSE Returned([ pool_size |-> pool_size[1], max_overflow |-> max_overflow[1],
                       pool_timeout |-> pool_timeout[1], pool_recycle |-> 1800 ])

\* dict.update
DictUpdateKeys(d, more) ==
    [k \in DOMAIN d \cup DOMAIN more |-> IF k \in DOMAIN more THEN more[k] ELSE d[k]]

\* SyncDatabaseManager.__init__ and AsyncDatabaseManager.__init__: the keyword
\* arguments the engine is created with
DatabaseManager_init(env, pool_kwargs) ==
    LET pool_config == get_pool_config(env)
    IN IF pool_config.status # "ok" THEN pool_config
       ELSE Returned(DictUpdateKeys(pool_config.val, pool_kwargs))

\* Field(default, ge, le) of an int field: the value loaded, or ValidationError
IntField(env, name, default, ge, le) ==
    LET v == getenv(env, name, <<default>>)
    IN IF v = <<>> \/ v[1] < ge \/ v[1] > le THEN Raised("ValidationError") ELSE Returned(v[1])

\* BaseSettings(): the three pool fields
BaseSettingsPool(env) ==
    LET POOL_SIZE == IntField(env, "POOL_SIZE", 20, 1, 100)
        POOL_MAX_OVERFLOW == IntField(env, "POOL_MAX_OVERFLOW", 10, 0, 50)
        POOL_TIMEOUT == IntField(env, "POOL_TIMEOUT", 30, 5, 120)
    IN IF \E f \in { POOL_SIZE, POOL_MAX_OVERFLOW, POOL_TIMEOUT } : f.status # "ok"
       THEN Raised("ValidationError")
       ELSE Returned([ POOL_SIZE |-> POOL_SIZE.val, POOL_MAX_OVERFLOW |-> POOL_MAX_OVERFLOW.val,
                       POOL_TIMEOUT |-> POOL_TIMEOUT.val ])

----------------------------------------------------------------------------
(* SpecPool: managers constructed and settings loaded under environments    *)
(* that leave each pool variable unset, set it inside or outside its range, *)
(* or set it to a text that is not a number                                 *)

\* name set to v[1], or unset when v is <<>>
Setting(name, v) == IF v = <<>> THEN <<>> ELSE (name :> v[1])

PoolSizeInputs == { <<>>, <<<<0>>>>, <<<<1>>>>, <<<<100>>>>, <<<<101>>>>, <<<<>>>> }

MaxOverflowInputs == { <<>>, <<<<0 - 1>>>>, <<<<0>>>>, <<<<50>>>>, <<<<51>>>> }

PoolTimeoutInputs == { <<>>, <<<<4>>>>, <<<<5>>>>, <<<<120>>>>, <<<<121>>>> }

PoolEnvInputs ==
    { Setting("POOL_SIZE", a) @@ Setting("POOL_MAX_OVERFLOW", b) @@ Setting("POOL_TIMEOUT", c) :
        a \in PoolSizeInputs, b \in MaxOverflowInputs, c \in PoolTimeoutInputs }

PoolKwargsInputs == { <<>>, [pool_size |-> 5], [pool_recycle |-> 60] }

SyncDatabaseManagerInit(env, pool_kwargs) ==
    LET r == DatabaseManager_init(env, pool_kwargs)
    IN /\ resp' = Ret("SyncDatabaseManager", <<env, pool_kwargs>>, r.status, r.val)
       /\ UNCHANGED notResp

AsyncDatabaseManagerInit(env, pool_kwargs) ==
    LET r == DatabaseManager_init(env, pool_kwargs)
    IN /\ resp' = Ret("AsyncDatabaseManager", <<env, pool_kwargs>>, r.status, r.val)
       /\ UNCHANGED notResp

LoadBaseSettings(env) ==
    LET r == BaseSettingsPool(env)
    IN /\ resp' = Ret("BaseSettings", <<env>>, r.status, r.val)
       /\ UNCHANGED notResp

NextPool ==
    \/ \E env \in PoolEnvInputs, kw \in PoolKwargsInputs : SyncDatabaseManagerInit(env, kw)
    \/ \E env \in PoolEnvInputs, kw \in PoolKwargsInputs : AsyncDatabaseManagerInit(env, kw)
    \/ \E env \in PoolEnvInputs : LoadBaseSettings(env)

InitPool == InitStore /\ IdleRest

SpecPool == InitPool /\ [][NextPool]_vars

----------------------------------------------------------------------------
(* C25 *)

\* The value the environment gives a pool variable lies in lo..hi (the default
\* does)
InRange(env, name, lo, hi) ==
    name \in DOMAIN env => env[name] # <<>> /\ env[name][1] >= lo /\ env[name][1] <= hi

\* C25: the pool configuration a manager builds its engine with from the
\* environment alone has 1 <= pool_size <= 100, 0 <= max_overflow <= 50,
\* 5 <= pool_timeout <= 120 and pool_recycle = 1800, with defaults 20, 10 and
\* 30; a variable outside its range is rejected with an error, by the manager
\* and by the settings, instead of being used.
C25_PoolWithinRanges ==
    LET env == resp.args[1]
        ok == /\ InRange(env, "POOL_SIZE", 1, 100)
              /\ InRange(env, "POOL_MAX_OVERFLOW", 0, 50)
              /\ InRange(env, "POOL_TIMEOUT", 5, 120)
    IN /\ (resp.op \in { "SyncDatabaseManager", "AsyncDatabaseManager" } /\ resp.args[2] = <<>>) =>
              /\ resp.status = "ok" <=> ok
              /\ resp.status = "ok" =>
                     /\ resp.val.pool_size = getenv(env, "POOL_SIZE", <<20>>)[1]
                     /\ resp.val.max_overflow = getenv(env, "POOL_MAX_OVERFLOW", <<10>>)[1]
                     /\ resp.val.pool_timeout = getenv(env, "POOL_TIMEOUT", <<30>>)[1]
                     /\ resp.val.pool_recycle = 1800
       /\ resp.op = "BaseSettings" =>
              /\ resp.status = "ok" <=> ok
              /\ resp.status # "ok" => resp.status = "ValidationError"

----------------------------------------------------------------------------
(* Credential secrets (auth/secrets.py).  A secret's name and content are   *)
(* texts.  The secrets directory maps a name to what is found under it: no  *)
(* entry, a directory, or a regular file with its content and whether       *)
(* reading it succeeds.  The environment maps variable names to texts.      *)

ADMIN_USERNAME_KEY == << "a", "d", "m", "i", "n", "_", "u", "s", "e", "r", "n", "a", "m", "e" >>

ADMIN_PASSWORD_HASH_KEY ==
    << "a", "d", "m", "i", "n", "_", "p", "a", "s", "s", "w", "o", "r", "d", "_", "h", "a", "s", "h" >>

USER_USERNAME_KEY == << "u", "s", "e", "r", "_", "u", "s", "e", "r", "n", "a", "m", "e" >>

USER_PASSWORD_HASH_KEY ==
    << "u", "s", "e", "r", "_", "p", "a", "s", "s", "w", "o", "r", "d", "_", "h", "a", "s", "h" >>

NoEntry == [kind |-> "none", text |-> <<>>, readable |-> FALSE]

Directory == [kind |-> "dir", text |-> <<>>, readable |-> FALSE]

RegularFile(text, readable) == [kind |-> "file", text |-> text, readable |-> readable]

\* secret_path.exists() and secret_path.is_file()
is_file(secrets_dir, secret_name) ==
    secret_name \in DOMAIN secrets_dir /\ secrets_dir[secret_name].kind = "file"

\* SecretsManager.read_secret reading the environment variable of the name as
\* it is
read_secret_noUpper(secrets_dir, env, secret_name) ==
    IF is_file(secrets_dir, secret_name) /\ secrets_dir[secret_name].readable
    THEN Some(strip(secrets_dir[secret_name].text))
    ELSE IF secret_name \in DOMAIN env THEN Some(env[secret_name]) ELSE None

\* SecretsManager.read_secret: None or the text read; read_text() raising is
\* swallowed and the environment is consulted
read_secret(secrets_dir, env, secret_name) ==
    IF is_file(secrets_dir, secret_name) /\ secrets_dir[secret_name].readable
    THEN Some(strip(secrets_dir[secret_name].text))
    ELSE LET env_var == Upper(secret_name)
         IN IF env_var \in DOMAIN env THEN Some(env[env_var]) ELSE None

\* SecretsManager.get_admin_credentials
get_admin_credentials(secrets_dir, env) ==
    LET username == read_secret(secrets_dir, env, ADMIN_USERNAME_KEY)
        password_hash == read_secret(secrets_dir, env, ADMIN_PASSWORD_HASH_KEY)
    IN IF Falsy(username) \/ Falsy(password_hash) THEN Raised("ValueError")
       ELSE Returned(Some(<<username[1], password_hash[1]>>))

\* SecretsManager.get_user_credentials
get_user_credentials(secrets_dir, env) ==
    LET username == read_secret(secrets_dir, env, USER_USERNAME_KEY)
        password_hash == read_secret(secrets_dir, env, USER_PASSWORD_HASH_KEY)
    IN IF ~Falsy(username) /\ ~Falsy(password_hash)
       THEN Returned(Some(<<username[1], password_hash[1]>>))
       ELSE Returned(None)

----------------------------------------------------------------------------
(* SpecSecrets: secrets read under every combination of directory entry and *)
(* environment variable for the names involved                              *)

EntryInputs ==
    { NoEntry, Directory, RegularFile(<<" ", "s", "\n">>, TRUE), RegularFile(<<" ">>, TRUE),
      RegularFile(<<"s">>, FALSE) }

\* The variable of a name: unset, set, set to the empty text, or set only
\* under the name in lower case
EnvOfInputs(secret_name) ==
    { <<>>, Upper(secret_name) :> <<"e">>, Upper(secret_name) :> <<>>, secret_name :> <<"l">> }

ReadSecret(secrets_dir, env, secret_name) ==
    /\ resp' = Ret("read_secret", <<secrets_dir, env, secret_name>>, "ok",
                   read_secret(secrets_dir, env, secret_name))
    /\ UNCHANGED notResp

GetAdminCredentials(secrets_dir, env) ==
    LET r == get_admin_credentials(secrets_dir, env)
    IN /\ resp' = Ret("get_admin_credentials", <<secrets_dir, env>>, r.status, r.val)
       /\ UNCHANGED notResp

GetUserCredentials(secrets_dir, env) ==
    LET r == get_user_credentials(secrets_dir, env)
    IN /\ resp' = Ret("get_user_credentials", <<secrets_dir, env>>, r.status, r.val)
       /\ UNCHANGED notResp

NextSecrets ==
    \/ \E name \in { ADMIN_USERNAME_KEY, USER_PASSWORD_HASH_KEY }, entry \in EntryInputs :
           \E env \in EnvOfInputs(name) : ReadSecret(name :> entry, env, name)
    \/ \E a \in EntryInputs, b \in EntryInputs :
           \E x \in EnvOfInputs(ADMIN_USERNAME_KEY), y \in EnvOfInputs(ADMIN_PASSWORD_HASH_KEY) :
               GetAdminCredentials((ADMIN_USERNAME_KEY :> a) @@ (ADMIN_PASSWORD_HASH_KEY :> b), x @@ y)
    \/ \E a \in EntryInputs, b \in EntryInputs :
           \E x \in EnvOfInputs(USER_USERNAME_KEY), y \in EnvOfInputs(USER_PASSWORD_HASH_KEY) :
               GetUserCredentials((USER_USERNAME_KEY :> a) @@ (USER_PASSWORD_HASH_KEY :> b), x @@ y)

InitSecrets == InitStore /\ IdleRest

SpecSecrets == InitSecrets /\ [][NextSecrets]_vars

----------------------------------------------------------------------------
(* C26 *)

\* What the environment holds for a secret: the variable named by the name in
\* upper case
FromEnv(env, secret_name) ==
    IF Upper(secret_name) \in DOMAIN env THEN Some(env[Upper(secret_name)]) ELSE None

\* What a secret resolves to if an existing file always wins
FileWins(secrets_dir, env, secret_name) ==
    IF secrets_dir[secret_name].kind = "file" THEN Some(strip(secrets_dir[secret_name].text))
    ELSE FromEnv(env, secret_name)

\* What a secret resolves to if a file wins when it can be read
ReadableFileWins(secrets_dir, env, secret_name) ==
    IF secrets_dir[secret_name].kind = "file" /\ secrets_dir[secret_name].readable
    THEN Some(strip(secrets_dir[secret_name].text))
    ELSE FromEnv(env, secret_name)

\* The claim on the three operations, given how a secret resolves; a half
\* resolves to nothing when it is absent or empty
SecretsContract(Resolve(_, _, _)) ==
    LET secrets_dir == resp.args[1]
        env == resp.args[2]
    IN /\ resp.op = "read_secret" => resp.val = Resolve(secrets_dir, env, resp.args[3])
       /\ resp.op = "get_admin_credentials" =>
              /\ resp.status \in { "ok", "ValueError" }
              /\ resp.status = "ValueError" <=>
                     \/ Falsy(Resolve(secrets_dir, env, ADMIN_USERNAME_KEY))
                     \/ Falsy(Resolve(secrets_dir, env, ADMIN_PASSWORD_HASH_KEY))
              /\ resp.status = "ok" =>
                     resp.val = Some(<<Resolve(secrets_dir, env, ADMIN_USERNAME_KEY)[1],
                                       Resolve(secrets_dir, env, ADMIN_PASSWORD_HASH_KEY)[1]>>)
       /\ resp.op = "get_user_credentials" =>
              /\ resp.status = "ok"
              /\ resp.val = None <=>
                     \/ Falsy(Resolve(secrets_dir, env, USER_USERNAME_KEY))
                     \/ Falsy(Resolve(secrets_dir, env, USER_PASSWORD_HASH_KEY))
              /\ resp.val # None =>
                     resp.val = Some(<<Resolve(secrets_dir, env, USER_USERNAME_KEY)[1],
                                       Resolve(secrets_dir, env, USER_PASSWORD_HASH_KEY)[1]>>)

\* C26 as stated: read_secret returns the trimmed content of the file whenever
\* the file exists and the environment variable named by the upper-cased name
\* only when it does not; get_admin_credentials fails exactly when a half
\* resolves to nothing, get_user_credentials returns nothing exactly then and
\* never fails.
C26_FileWheneverItExists == SecretsContract(FileWins)

\* C26: read_secret returns the trimmed content of the file whenever the file
\* exists and can be read, and otherwise (no entry, a directory, or a file
\* whose reading fails) the environment variable named by the upper-cased name,
\* or nothing; get_admin_credentials fails exactly when a half resolves to
\* nothing or to the empty text, get_user_credentials returns nothing exactly
\* then and never fails.
C26_FileWhenReadable == SecretsContract(ReadableFileWins)

\* C26 witness: the file of a secret exists but reading it fails, and the
\* variable's value is returned
C26_Witness ==
    /\ resp.op = "read_secret"
    /\ resp.args[1][resp.args[3]].kind = "file"
    /\ ~resp.args[1][resp.args[3]].readable
    /\ resp.val = Some(<<"e">>)

----------------------------------------------------------------------------
(* Logging (logging.py).  A level name is a text; a logger is its level,    *)
(* its handlers in the order attached, and its propagate flag.              *)

\* The level attributes of the logging module
LoggingLevels ==
    (<<"D", "E", "B", "U", "G">> :> 10) @@ (<<"I", "N", "F", "O">> :> 20)
    @@ (<<"W", "A", "R", "N", "I", "N", "G">> :> 30) @@ (<<"E", "R", "R", "O", "R">> :> 40)
    @@ (<<"C", "R", "I", "T", "I", "C", "A", "L">> :> 50)

\* getattr(obj, name): AttributeError when obj has no such attribute
getattr(obj, name) ==
    IF name \in DOMAIN obj THEN Returned(obj[name]) ELSE Raised("AttributeError")

\* get_base_settings(): BaseSettings() loaded from the environment; a variable
\* that names no field is ignored (extra="ignore")
get_base_settings(env) ==
    BaseSettings(env)
    @@ [ ENVIRONMENT |-> getenv(env, "ENVIRONMENT", "development"),
         LOG_LEVEL |-> getenv(env, "LOG_LEVEL", "INFO"),
         LOG_FORMAT |-> getenv(env, "LOG_FORMAT", "json") ]

\* logging.getLogger(name) for a name not asked for before
NewLogger == [level |-> 0, handlers |-> <<>>, propagate |-> TRUE]

\* The body of get_logger: the call's outcome and the registry it leaves
get_logger(settings, registry, name, level) ==
    LET logger == IF name \in DOMAIN registry THEN registry[name] ELSE NewLogger
        created == (name :> logger) @@ registry
        log_level == IF ~Falsy(level) THEN getattr(LoggingLevels, Upper(level[1]))
                     ELSE LET DEBUG == getattr(settings, "DEBUG")
                          IN IF DEBUG.status # "ok" THEN DEBUG
                             ELSE Returned(IF DEBUG.val THEN 10 ELSE 20)
        formatter == IF settings.ENVIRONMENT = "production" THEN "StructuredFormatter"
                     ELSE "DevelopmentFormatter"
    IN IF logger.handlers # <<>> THEN [status |-> "ok", val |-> Some(name), loggers |-> created]
       ELSE IF log_level.status # "ok"
       THEN [status |-> log_level.status, val |-> None, loggers |-> created]
       ELSE [ status |-> "ok", val |-> Some(name),
              loggers |-> (name :> [ level |-> log_level.val,
                                     handlers |-> <<[ level |-> log_level.val,
                                                      formatter |-> formatter ]>>,
                                     propagate |-> FALSE ]) @@ registry ]

----------------------------------------------------------------------------
(* SpecLog: get_logger called with any names and levels, in any order, under *)
(* settings loaded from an environment                                      *)

LoggerNameInputs == { "bdns.etl", "bdns.portal" }

LevelInputs == { None, Some(<<"d", "e", "b", "u", "g">>), Some(<<"W", "A", "R", "N", "I", "N", "G">>) }

LogEnvInputs ==
    { <<>>, [ENVIRONMENT |-> "production"], [DEBUG |-> "true"],
      [ENVIRONMENT |-> "production", DEBUG |-> "true"] }

notLog == <<users, nextId, now, ticks, tok, cfg, okBefore, lastPw, sess, bootVars, etl_job>>

\* One call of get_logger through its lru_cache: a remembered result is
\* returned as it is, and a call that raises is not remembered
GetLogger(name, level) ==
    /\ IF <<name, level>> \in cache
       THEN /\ resp' = Ret("get_logger", <<name, level>>, "ok", Some(name))
            /\ UNCHANGED <<loggers, cache>>
       ELSE LET r == get_logger(cfg, loggers, name, level)
            IN /\ resp' = Ret("get_logger", <<name, level>>, r.status, r.val)
               /\ loggers' = r.loggers
               /\ cache' = IF r.status = "ok" THEN cache \cup {<<name, level>>} ELSE cache
    /\ UNCHANGED notLog

NextLog == \E name \in LoggerNameInputs, level \in LevelInputs : GetLogger(name, level)

InitLog ==
    /\ InitStore
    /\ now = 0
    /\ ticks = 0
    /\ tok = None
    /\ cfg \in { get_base_settings(env) : env \in LogEnvInputs }
    /\ okBefore = FALSE
    /\ sess = SessionIdle
    /\ NoBootstrap
    /\ NoAux

SpecLog == InitLog /\ [][NextLog]_vars

----------------------------------------------------------------------------
(* C27 *)

\* C27: every get_logger call returns the logger of the name it was given,
\* which has exactly one handler and does not propagate, and every logger
\* returned before still has exactly one handler.
C27_ConfiguredOnce ==
    /\ resp.op = "get_logger" =>
           /\ resp.status = "ok"
           /\ resp.val = Some(resp.args[1])
           /\ Len(loggers[resp.args[1]].handlers) = 1
           /\ ~loggers[resp.args[1]].propagate
    /\ \A key \in cache : Len(loggers[key[1]].handlers) = 1 /\ ~loggers[key[1]].propagate

----------------------------------------------------------------------------
(* SpecBearer: accounts whose role and active flag are updated while tokens *)
(* of either kind, issued before or after, are presented to the gates       *)

BearerPayloads == { [role |-> Some("admin")], [role |-> Some("viewer")], [activo |-> Some(FALSE)] }

BearerTickSteps == { ACCESS_TOKEN_EXPIRE_MINUTES + 1, Days(REFRESH_TOKEN_EXPIRE_DAYS) }

BearerSubjects == { <<"a", "n">> }

NextBearer ==
    \/ \E u \in BearerSubjects : CreateUser(UsuarioCreate(u, EmailOf(u), "Passw0rd1", None, "user", TRUE))
    \/ \E i \in UserIds, d \in BearerPayloads : UpdateUser(i, d)
    \/ \E u \in BearerSubjects, r \in { "admin", "user" }, which \in { "access_token", "refresh_token" } :
          CreateTokenPair(u, r, which)
    \/ \E d \in BearerTickSteps : Tick(d)
    \/ VerifyToken
    \/ GetCurrentUser
    \/ \E a \in AllowedRoleSets : RequireRole(a)
    \/ GetOptionalUser(TRUE)

InitBearer == InitStore /\ IdleRest

SpecBearer == InitBearer /\ [][NextBearer]_vars

----------------------------------------------------------------------------
(* C28 *)

\* update_user has just changed the role of the account a held, unexpired
\* token was issued for, leaving its name and active flag as they were
RoleJustChanged ==
    /\ resp'.op = "update_user"
    /\ ~IsNone(resp'.val)
    /\ ~IsNone(tok)
    /\ LET i == resp'.args[1]
       IN /\ users[i].username = Lower(tok[1].data.sub)
          /\ users'[i].role # users[i].role
          /\ users'[i].activo = users[i].activo
          /\ users'[i].username = users[i].username

\* C28: a role gate evaluates the role claim of the token, never the stored
\* role: the user a gate returns carries the token's role, and when update_user
\* changes the role of the token's account every role gate answers the token
\* after the change as it did before it; of the store only the existence and
\* the active flag of the account count.
C28_RoleFromToken ==
    [][ /\ (resp'.op = "require_role" /\ resp'.status = "200") =>
               resp'.val[1].role = RoleOf(tok'[1].jwt.payload)
        /\ (resp'.op = "require_role" /\ TokenValid' /\ ActiveAccount') =>
               (resp'.status = "200" <=> RoleOf(tok'[1].jwt.payload) \in resp'.args[2])
        /\ RoleJustChanged =>
               \A a \in AllowedRoleSets :
                   require_role(a, tok[1].jwt, users', now') = require_role(a, tok[1].jwt, users, now)
      ]_vars

\* C28 witness: a token issued with role "user" passes require_role("admin",
\* "user") although the role stored for its account is now "viewer"
C28_Witness ==
    /\ resp.op = "require_role"
    /\ resp.args[2] = {"admin", "user"}
    /\ resp.status = "200"
    /\ tok[1].data.role = "user"
    /\ \E i \in DOMAIN users : users[i].username = Lower(tok[1].data.sub) /\ users[i].role = "viewer"

----------------------------------------------------------------------------
(* C29 *)

\* The presented token is the refresh token of a pair, produced by
\* create_refresh_token
IsRefreshToken == tok[1].by = "refresh_token"

\* C29: the gates ignore the type marker: a token produced by
\* create_refresh_token carries type "refresh", and while it is within its 7
\* days and its account exists and is active, verify_token, get_current_user
\* and get_optional_user return the user and role it was issued for, and
\* require_role decides on that role.
C29_RefreshTokenAccepted ==
    (~IsNone(tok) /\ IsRefreshToken) =>
        LET issued == [username |-> tok[1].data.sub, role |-> tok[1].data.role]
            live == now <= tok[1].t0 + Days(REFRESH_TOKEN_EXPIRE_DAYS)
        IN /\ tok[1].jwt.payload.type = "refresh"
           /\ (resp.op = "verify_token" /\ live) => resp.val = Some(issued)
           /\ (resp.op \in { "get_current_user", "get_optional_user" } /\ live /\ ActiveAccount) =>
                  resp.status = "200" /\ resp.val = Some(issued)
           /\ (resp.op = "require_role" /\ live /\ ActiveAccount) =>
                  IF issued.role \in resp.args[2]
                  THEN resp.status = "200" /\ resp.val = Some(issued)
                  ELSE resp.status = "403"

\* C29 witness: get_current_user accepts the refresh token of a pair at a time
\* when the access token of that pair has expired
C29_Witness ==
    /\ resp.op = "get_current_user"
    /\ tok[1].by = "refresh_token"
    /\ now > tok[1].t0 + ACCESS_TOKEN_EXPIRE_MINUTES
    /\ resp.status = "200"
    /\ resp.val = Some([username |-> tok[1].data.sub, role |-> tok[1].data.role])

----------------------------------------------------------------------------
(* C30 *)

\* C30: the scoped sessions of both managers and get_db never commit: an entry
\* creates one new session with nothing pending; an exit, normal or by an
\* exception, calls no commit, leaves the committed changes as they were, drops
\* the changes still pending, and closes the session.
C30_NeverCommits ==
    [][ /\ (sess.pc # "open" /\ sess'.pc = "open") =>
               /\ sess'.created = 1
               /\ sess'.pending = 0
               /\ sess'.calls = <<>>
        /\ (sess.pc = "open" /\ sess'.pc = "done") =>
               /\ Count(sess'.calls, "commit") = 0
               /\ Count(sess'.calls, "close") >= 1
               /\ sess'.calls[Len(sess'.calls)] = "close"
               /\ sess'.committed = sess.committed
               /\ sess'.pending = 0
               /\ sess'.discarded = sess.pending
               /\ sess'.created = 1
      ]_vars

\* C30 witness: a scoped session ended normally after its block committed one
\* change and left another uncommitted, which was dropped
C30_Witness ==
    /\ sess.pc = "done"
    /\ sess.helper = "sync"
    /\ resp.status = "ok"
    /\ sess.committed = 1
    /\ sess.discarded = 1
    /\ sess.calls = <<"close">>

====
